---- MODULE Spec2Model ----
(***************************************************************************)
(* Specter desktop agent: module start-up, the interactive loop, the       *)
(* command router (SpecterAgent.process_command) and the conversation      *)
(* engine (ConversationEngine), modelled from src/main.py and              *)
(* src/modules/*.py.                                                       *)
(*                                                                         *)
(* Python strings are TLA+ strings; TLC evaluates Len, SubSeq and \o on    *)
(* them, so lower-casing, stripping and substring tests are computed       *)
(* character by character as Python does.  Pictographs that prefix some    *)
(* of the source's messages are left out of the message texts.             *)
(***************************************************************************)
EXTENDS Integers, Sequences, FiniteSets, TLC

\* ------------------------------------------------------------------ bounds

\* At most this many capability modules fail to load or to construct.
MaxDown == 1
\* The interactive session (Spec) stops chatting once the history holds
\* this many turns.
MaxSessionHistory == 2
\* The conversation engine on its own (SpecChat) is explored up to this
\* many turns of history.
MaxHistory == 4
MaxClock == 6
\* The engine started on a long stored history (SpecContext) is explored up
\* to this many turns of history.
MaxContextHistory == 17
\* speak() is called at most this many times (SpecSpeech).
MaxUtterances == 3
\* At most this many download threads are started (SpecMusic).
MaxDownloads == 2
\* At most this many monitoring loops are started (SpecMonitor).
MaxLoops == 2

\* ------------------------------------------------------- Python strings

UpperLetters == "ABCDEFGHIJKLMNOPQRSTUVWXYZ"
LowerLetters == "abcdefghijklmnopqrstuvwxyz"
Digits == "0123456789"

CharAt(s, i) == SubSeq(s, i, i)

CharIn(c, chars) == \E i \in 1..Len(chars) : CharAt(chars, i) = c

\* str.lower() on one character
LowerChar(c) ==
    IF CharIn(c, UpperLetters)
    THEN CharAt(LowerLetters, CHOOSE i \in 1..26 : CharAt(UpperLetters, i) = c)
    ELSE c

RECURSIVE Lower(_)
\* str.lower()
Lower(s) ==
    IF Len(s) = 0 THEN ""
    ELSE LowerChar(CharAt(s, 1)) \o Lower(SubSeq(s, 2, Len(s)))

IsSpace(c) == c = " " \/ c = "\n" \/ c = "\t"

RECURSIVE LStrip(_)
LStrip(s) ==
    IF Len(s) > 0 /\ IsSpace(CharAt(s, 1)) THEN LStrip(SubSeq(s, 2, Len(s))) ELSE s

RECURSIVE RStrip(_)
RStrip(s) ==
    IF Len(s) > 0 /\ IsSpace(CharAt(s, Len(s)))
    THEN RStrip(SubSeq(s, 1, Len(s) - 1)) ELSE s

\* str.strip()
Strip(s) == RStrip(LStrip(s))

\* Python's  w in s  for strings: w occurs in s as a substring
Contains(s, w) ==
    \E i \in 1..(Len(s) - Len(w) + 1) : SubSeq(s, i, i + Len(w) - 1) = w

\* any(word in s for word in words)
AnyIn(words, s) == \E w \in words : Contains(s, w)

\* str.startswith
StartsWith(s, p) == Len(s) >= Len(p) /\ SubSeq(s, 1, Len(p)) = p

\* index of the first occurrence of w in s, 0 when there is none
Find(s, w) ==
    IF Contains(s, w)
    THEN CHOOSE i \in 1..(Len(s) - Len(w) + 1) :
            /\ SubSeq(s, i, i + Len(w) - 1) = w
            /\ \A j \in 1..(i - 1) : SubSeq(s, j, j + Len(w) - 1) # w
    ELSE 0

\* s.split(sep)[0]
SplitFirst(s, sep) ==
    IF Contains(s, sep) THEN SubSeq(s, 1, Find(s, sep) - 1) ELSE s

\* s.split(sep)[1], for an s that holds sep
SplitSecond(s, sep) ==
    SplitFirst(SubSeq(s, Find(s, sep) + Len(sep), Len(s)), sep)

\* the least and the greatest element of a non-empty set of numbers
Min(S) == CHOOSE a \in S : \A b \in S : a <= b
Max(S) == CHOOSE a \in S : \A b \in S : b <= a

\* ------------------------------------------------------- Python values

PyStr(s) == [type |-> "str", val |-> s]
PyNone == [type |-> "NoneType"]
IsStr(v) == v.type = "str"

\* ------------------------------------------------------------ inputs

\* one keyword of every rule of the router, in the order of the rules, and
\* a word no rule lists
Vocabulary == <<"play", "email", "find", "news", "weather", "meeting", "open",
                "system", "hello">>

Sentences == {"Play Despacito", "organize my downloads", "volume up", "pause",
              "send mail to bob@example.com", "send bob@example.com the file",
              "stop the music", "send mail to bob@", "calendar this week", "display settings",
              "move my files", "quit now",
              "quit", " Exit ", "BYE", "goodbye",
              "help", "status", "install", "", "   "}

\* what the user may type at the prompt
UserInputs == {Vocabulary[i] : i \in 1..Len(Vocabulary)} \cup Sentences

\* lines that hold two words of the vocabulary, in either order
KeywordInputs ==
    {Vocabulary[i] \o " " \o Vocabulary[j] :
        i \in 1..Len(Vocabulary), j \in 1..Len(Vocabulary)}

Lines == UserInputs \cup KeywordInputs

\* the lines as the loop hands them to process_command
Commands == {Strip(line) : line \in Lines}

\* messages given to the conversation engine when it is used on its own
ChatMessages == {"tell me a joke", "Thanks, bye"}

\* every text that may reach ConversationEngine.chat
ChatTexts == Commands \cup ChatMessages

\* the text-generation service answering a request: it fails (transport
\* error, timeout), or returns a completion text
LlmError == [ok |-> FALSE]
LlmText(s) == [ok |-> TRUE, content |-> s]
\* a completion text wrapped in a code fence (a line of three backquotes
\* before and after it; the backquote cannot be written in a string here)
LlmFenced(s) == [ok |-> TRUE, content |-> s, fenced |-> TRUE]

\* the music player's request: see process_music_request_with_ai
AiError == [kind |-> "error"]
AiObject(action, query) == [kind |-> "object", action |-> action, search_query |-> query]
AiNotObject == [kind |-> "not_object"]

\* replies of the text-generation service to the intent prompt
FunctionNames == {"send_email", "play_music", "manage_files", "get_news",
                  "get_weather", "schedule_event", "launch_app", "system_info",
                  "get_draft", "send_draft", "send_email_auto",
                  "move_files", "copy_files", "create_script", "delete_files"}

IntentOutcomes ==
    {LlmError, LlmText("CHAT: Continue with normal conversation")}
    \cup {LlmText("FUNCTION: " \o f \o "\nREASON: the user asks for it") : f \in FunctionNames}

\* replies of the service to a chat request, to the extraction prompt and
\* to the music player's prompt
ChatOutcomes == {LlmError, LlmText(" Sure thing!\nSee \"C:\\temp\". ")}
ExtractionOutcomes ==
    {LlmError,
     LlmText("{\"recipient\": \"amy@example.org\", \"subject\": null, \"message\": null}"),
     LlmFenced("{\"recipient\": \"amy@example.org\", \"subject\": null, \"message\": null}")}
AiOutcomes == {AiError, AiObject("stop", ""), AiObject("play", "despacito"),
               AiObject("dance", ""), AiNotObject}

\* ------------------------------------------- modules/conversation.py

\* os.getenv('USER_NAME', 'User')
user_name == "User"

valid_modes == <<"friend", "therapist", "workmate">>

\* the table of fallback_response, in the order the dict is written
fallback_responses == <<
    [key |-> "hello", response |-> "Hello " \o user_name \o "! I can help with emails, files, music, and more. How can I assist you?"],
    [key |-> "hi", response |-> "Hi " \o user_name \o "! What would you like to do today? I can manage files, send emails, or just chat!"],
    [key |-> "how are you", response |-> "I'm doing well, thank you for asking! Ready to help with any file operations, emails, or other tasks. How are you?"],
    [key |-> "what can you do", response |-> "I can help with file management (move, copy, create scripts), email automation, music, news, weather, and much more!"],
    [key |-> "help", response |-> "I can assist with file operations, email management, music playback, news updates, and general conversation!"],
    [key |-> "files", response |-> "I can help you find, organize, move, copy, create, or delete files safely. What file operation do you need?"],
    [key |-> "email", response |-> "I can help you compose, send, or manage email drafts. Would you like to send an email?"],
    [key |-> "move files", response |-> "I can help you move files interactively with password protection. Just say 'move files' to get started!"],
    [key |-> "copy files", response |-> "I can help you copy files safely to different locations. Say 'copy files' to begin!"],
    [key |-> "create script", response |-> "I can generate script templates in Python, JavaScript, HTML, Bash, or CSS. Say 'create script' to start!"],
    [key |-> "thank you", response |-> "You're welcome! I'm always happy to help with files, emails, or anything else."],
    [key |-> "thanks", response |-> "No problem! Glad I could help. Need any file operations or other assistance?"],
    [key |-> "goodbye", response |-> "Goodbye! Remember, I'm here to help with file management and more anytime!"],
    [key |-> "bye", response |-> "See you later! Don't forget I can help organize your files or handle other tasks."] >>

generic_fallback ==
    "I understand you're trying to communicate! I can help with file operations, email management, music, and conversation. For full AI features, configure your GROQ_API_KEY. What would you like to do?"

\* the first entry of a table (in its order) whose key occurs in the
\* lower-cased message, else the default
TableLookup(table, message, default) ==
    LET m == Lower(message)
        hits == {i \in 1..Len(table) : Contains(m, table[i].key)}
    IN  IF hits = {} THEN default
        ELSE table[CHOOSE i \in hits : \A j \in hits : i <= j].response

\* a lookup that would give the reply of the last phrase that occurs
last_phrase_response(message) ==
    LET hits == {i \in 1..Len(fallback_responses) :
                    Contains(Lower(message), fallback_responses[i].key)}
    IN  IF hits = {} THEN generic_fallback
        ELSE fallback_responses[CHOOSE i \in hits : \A j \in hits : j <= i].response

fallback_response(message) ==
    TableLookup(fallback_responses, message, generic_fallback)

\* fallback_response tabulated over the texts of the model (computed once)
FallbackOf == [m \in ChatTexts |-> fallback_response(m)]

\* one history entry
Turn(role, content, timestamp) ==
    [role |-> role, content |-> content, timestamp |-> timestamp]

\* a history that would keep the latest entry only
history_of_latest(conversation_history, role, content, now) ==
    <<Turn(role, content, now)>>

add_to_history(conversation_history, role, content, now) ==
    Append(conversation_history, Turn(role, content, now))

\* json.dump on one character of a string: the quote, the backslash, the
\* newline and the tab are written as escape sequences
json_escape_char(c) ==
    IF c = "\"" THEN "\\\""
    ELSE IF c = "\\" THEN "\\\\"
    ELSE IF c = "\n" THEN "\\n"
    ELSE IF c = "\t" THEN "\\t"
    ELSE c

\* each character written in its turn (computed by halves)
RECURSIVE json_escape(_)
json_escape(s) ==
    IF Len(s) <= 1 THEN json_escape_char(s)
    ELSE json_escape(SubSeq(s, 1, Len(s) \div 2))
            \o json_escape(SubSeq(s, Len(s) \div 2 + 1, Len(s)))

\* json.load on the character that follows a backslash
json_unescape_char(c) ==
    IF c = "n" THEN "\n"
    ELSE IF c = "t" THEN "\t"
    ELSE c

\* the number of backslashes that end at position m of t
BackslashRun(t, m) ==
    Max({j \in 0..m : \A i \in (m - j + 1)..m : CharAt(t, i) = "\\"})

\* a position near the middle of t that does not part a backslash from
\* the character it escapes
SplitAt(t) ==
    IF BackslashRun(t, Len(t) \div 2) % 2 = 1
    THEN Len(t) \div 2 + 1 ELSE Len(t) \div 2

\* the text read from left to right, a backslash taken with the
\* character after it (computed by halves)
RECURSIVE json_unescape(_)
json_unescape(t) ==
    IF Len(t) <= 1 THEN t
    ELSE IF Len(t) = 2
    THEN (IF CharAt(t, 1) = "\\" THEN json_unescape_char(CharAt(t, 2)) ELSE t)
    ELSE json_unescape(SubSeq(t, 1, SplitAt(t)))
            \o json_unescape(SubSeq(t, SplitAt(t) + 1, Len(t)))

\* a string as json.dump writes it, and such a text as json.load reads it
json_dump_string(s) == "\"" \o json_escape(s) \o "\""

\* a reading that would take the text between the quotes as it is
json_between_quotes(t) == SubSeq(t, 2, Len(t) - 1)

json_load_string(t) == json_unescape(SubSeq(t, 2, Len(t) - 1))

\* the text of a stored turn of a long history
LongText(i) == "turn " \o ToString(i)

\* the strings that the histories of the model hold
HistoryTexts ==
    {"user", "assistant", "Hi!"}
    \cup ChatTexts
    \cup {FallbackOf[m] : m \in ChatTexts}
    \cup {Strip(o.content) : o \in ChatOutcomes \ {LlmError}}
    \cup {LongText(i) : i \in 1..MaxContextHistory}

\* json_dump_string and json_load_string tabulated over these strings
JsonStringOf == [s \in HistoryTexts |-> json_dump_string(s)]
JsonValueOf == [t \in {JsonStringOf[s] : s \in HistoryTexts} |-> json_load_string(t)]

\* json.dump(self.conversation_history, f): the list of the entries, their
\* strings written as JSON strings (the timestamp, an ISO date in the
\* source, is the reading of the clock here)
json_dump(conversation_history) ==
    [i \in 1..Len(conversation_history) |->
        [role |-> JsonStringOf[conversation_history[i].role],
         content |-> JsonStringOf[conversation_history[i].content],
         timestamp |-> conversation_history[i].timestamp]]

\* json.load(f) on such a text
json_load(text) ==
    [i \in 1..Len(text) |->
        Turn(JsonValueOf[text[i].role], JsonValueOf[text[i].content],
             text[i].timestamp)]

\* the history file data/conversation_history.json
FileAbsent == [kind |-> "absent"]
FileCorrupt == [kind |-> "corrupt"]
FileJson(turns) == [kind |-> "json", text |-> json_dump(turns)]

\* save_conversation_history: the whole list is dumped over the file; a
\* failure is logged and swallowed.  open(..., 'w') truncates before the
\* dump, so a failing dump leaves an unparseable file, while a failing
\* mkdir/open leaves the file as it was.
SaveOutcomes == {"ok", "open_fails", "dump_fails"}

\* a save that would add the latest two entries to what the file holds
save_latest_turns(conversation_history, file, outcome) ==
    CASE outcome = "ok" ->
            [kind |-> "json",
             text |-> (IF file.kind = "json" THEN file.text ELSE << >>)
                      \o json_dump(IF Len(conversation_history) < 2
                                   THEN conversation_history
                                   ELSE SubSeq(conversation_history,
                                               Len(conversation_history) - 1,
                                               Len(conversation_history)))]
      [] outcome = "open_fails" -> file
      [] outcome = "dump_fails" -> FileCorrupt

save_conversation_history(conversation_history, file, outcome) ==
    CASE outcome = "ok" -> FileJson(conversation_history)
      [] outcome = "open_fails" -> file
      [] outcome = "dump_fails" -> FileCorrupt

\* load_conversation_history: the list in the file when it exists and
\* parses; [] when parsing fails; the constructor's [] when it is absent
load_conversation_history(file) ==
    IF file.kind = "json" THEN json_load(file.text) ELSE << >>

\* the persona templates of get_system_prompt
prompts == [
    friend |-> "You are Specter, a friendly AI assistant and companion to " \o user_name \o ". Be warm, conversational, and helpful. You can help with files, emails, music, and more. Show personality and engage naturally. Remember previous conversations and build rapport. Keep responses concise but engaging.",
    therapist |-> "You are Specter, a supportive AI counselor for " \o user_name \o ". Listen actively, provide emotional support, and offer gentle guidance. Be empathetic, non-judgmental, and encouraging. Ask thoughtful questions. Keep responses supportive and not too long.",
    workmate |-> "You are Specter, a professional AI colleague working with " \o user_name \o ". Be efficient, knowledgeable, and focused on productivity. You can help with file management, script creation, email automation, and system monitoring. Provide clear, actionable advice and help solve problems systematically. Be direct and professional."]

\* get_system_prompt: prompts.get(self.current_mode, prompts["friend"]) and
\* the time of the call
get_system_prompt(current_mode, now) ==
    (IF current_mode \in DOMAIN prompts THEN prompts[current_mode] ELSE prompts["friend"])
        \o "\n\nCurrent time: " \o ToString(now)

\* the number of history entries groq_chat copies into a request
RecentWindow == 15

\* a context that would hold the whole history
whole_history(conversation_history) == conversation_history

\* conversation_history[-15:] if len(conversation_history) > 15 else
\* conversation_history
recent_history(conversation_history) ==
    IF Len(conversation_history) > RecentWindow
    THEN SubSeq(conversation_history, Len(conversation_history) - RecentWindow + 1,
                Len(conversation_history))
    ELSE conversation_history

\* an entry of a request: role and content, no timestamp
Message(role, content) == [role |-> role, content |-> content]

\* the entries of the history as groq_chat copies them into the request
ContextOf(recent) ==
    [i \in 1..Len(recent) |-> Message(recent[i].role, recent[i].content)]

\* the messages groq_chat sends: the system prompt, the recent history,
\* the current message
groq_chat_messages(conversation_history, current_mode, message, now) ==
    <<Message("system", get_system_prompt(current_mode, now))>>
        \o ContextOf(recent_history(conversation_history))
        \o <<Message("user", message)>>

\* the request chat(message, mode) sends to the service, << >> when the
\* engine has no client: chat appends the user's turn, then
\* generate_response calls groq_chat on the history that holds it
chat_request(eng, message, mode, client) ==
    IF client
    THEN groq_chat_messages(add_to_history(eng.history, "user", message, eng.clock),
                            IF mode # "" THEN mode ELSE eng.mode,
                            message, eng.clock)
    ELSE << >>

\* a groq_chat that would give an empty reply when the call fails
groq_chat_unguarded(message, llm) ==
    IF llm.ok THEN Strip(llm.content) ELSE ""

\* groq_chat: the stripped completion text, or fallback_response when the
\* call fails
groq_chat(message, llm) ==
    IF llm.ok THEN Strip(llm.content) ELSE FallbackOf[message]

generate_response(message, client, llm) ==
    IF client THEN groq_chat(message, llm) ELSE FallbackOf[message]

\* a chat that would record the assistant's turn only
chat_assistant_turn_only(eng, message, mode, response, save) ==
    LET history == add_to_history(eng.history, "assistant", response, eng.clock + 1)
    IN  [ret |-> response,
         eng |-> [history |-> history,
                  file |-> save_conversation_history(history, eng.file, save),
                  mode |-> IF mode # "" THEN mode ELSE eng.mode,
                  clock |-> eng.clock + 2]]

\* chat once the response is generated: both turns appended, the history
\* saved, the response returned
chat_turns(eng, message, mode, response, save) ==
    LET history == add_to_history(
                       add_to_history(eng.history, "user", message, eng.clock),
                       "assistant", response, eng.clock + 1)
    IN  [ret |-> response,
         eng |-> [history |-> history,
                  file |-> save_conversation_history(history, eng.file, save),
                  mode |-> IF mode # "" THEN mode ELSE eng.mode,
                  clock |-> eng.clock + 2]]

\* ConversationEngine.chat on the engine state eng =
\* [history, file, mode, clock], with the environment's answers: llm for the
\* completion call, save for the write of the history file
chat(eng, message, mode, client, llm, save) ==
    chat_turns(eng, message, mode, generate_response(message, client, llm), save)

\* a change_mode that would take any name
change_mode_unchecked(eng, new_mode) ==
    [ret |-> "Switched to " \o new_mode \o " mode. I'm ready to help with files, emails, and more!",
     eng |-> [eng EXCEPT !.mode = Lower(new_mode)]]

change_mode(eng, new_mode) ==
    IF \E i \in 1..Len(valid_modes) : valid_modes[i] = Lower(new_mode)
    THEN [ret |-> "Switched to " \o new_mode \o " mode. I'm ready to help with files, emails, and more!",
          eng |-> [eng EXCEPT !.mode = Lower(new_mode)]]
    ELSE [ret |-> "Available modes: friend, therapist, workmate", eng |-> eng]

\* a clear_history that would not save
clear_in_memory(eng, save) ==
    [ret |-> "Conversation history cleared! Ready for fresh file operations and conversations.",
     eng |-> [eng EXCEPT !.history = << >>]]

clear_history(eng, save) ==
    [ret |-> "Conversation history cleared! Ready for fresh file operations and conversations.",
     eng |-> [eng EXCEPT !.history = << >>,
                         !.file = save_conversation_history(<< >>, eng.file, save)]]

\* ------------------------------------------------ capability modules

\* What a call gives back: a value, or an exception with its message.
Return(s) == [ret |-> PyStr(s), exc |-> ""]
Raise(e) == [ret |-> PyNone, exc |-> e]

\* The message of an internal failure (an I/O, network or library error)
\* striking inside a module call.
FaultText == "device not ready"

\* The text a sub-operation returns when nothing fails; its content depends
\* on files, network and devices, which are not modelled.
Result(op) == op \o ": done"

\* a body wrapped in  try: ... except Exception: return <message>
Guarded(op, message, fault) ==
    IF fault THEN Return(message) ELSE Return(Result(op))



\* the index of the first whitespace character of t, Len(t) + 1 if none
FirstSpace(t) ==
    CHOOSE i \in 1..(Len(t) + 1) :
        /\ i = Len(t) + 1 \/ IsSpace(CharAt(t, i))
        /\ \A j \in 1..(i - 1) : ~IsSpace(CharAt(t, j))

RECURSIVE Words(_)
\* the words of a text that does not start with whitespace
WordsFrom(t) ==
    IF t = "" THEN << >>
    ELSE <<SubSeq(t, 1, FirstSpace(t) - 1)>> \o Words(SubSeq(t, FirstSpace(t), Len(t)))

\* str.split(): the words between runs of whitespace
Words(s) == WordsFrom(LStrip(s))

RECURSIVE Join(_)
\* " ".join(words)
Join(words) ==
    IF Len(words) = 0 THEN ""
    ELSE IF Len(words) = 1 THEN words[1]
    ELSE words[1] \o " " \o Join(Tail(words))

\* [w for w in command.lower().split() if w not in words_to_remove]
WordsWithout(command, words_to_remove) ==
    SelectSeq(Words(Lower(command)), LAMBDA w : w \notin words_to_remove)

\* modules/music_player.py ------------------------------------------------

\* " ".join(song_words) if song_words else "popular music"
JoinOr(song_words, default) ==
    IF Len(song_words) > 0 THEN Join(song_words) ELSE default

extract_song_name(command) ==
    JoinOr(WordsWithout(command,
               {"play", "music", "song", "some", "the", "a", "open", "start"}),
           "popular music")

\* process_music_request_with_ai: the completion call fails or its text is
\* no JSON ("error"): the basic parse is used; the text is a JSON object
\* ("object"): it is returned as is; the text is JSON of another shape
\* ("not_object", e.g. a list): it is returned as is, too.
process_music_request_with_ai(user_input, ai) ==
    IF ai.kind = "error"
    THEN AiObject("play", extract_song_name(user_input))
    ELSE ai

\* MusicPlayer(): the flags of a new player, no download thread started;
\* ytdlp says whether the import of yt_dlp succeeded
MusicPlayer(ytdlp) ==
    [YTDLP_AVAILABLE |-> ytdlp, is_playing |-> FALSE, is_paused |-> FALSE,
     loading |-> FALSE, downloads |-> 0, threads |-> << >>]

\* a download thread as play_music_smart starts it; stopped and played
\* record that stop_music ran while the thread was in flight and that the
\* thread started playback
DownloadThread(song_name) ==
    [pc |-> "search", song_name |-> song_name, stopped |-> FALSE, played |-> FALSE]

\* the threads, those in flight marked as having seen a stop
MarkStopped(threads) ==
    [i \in 1..Len(threads) |->
        IF threads[i].pc # "done" THEN [threads[i] EXCEPT !.stopped = TRUE]
        ELSE threads[i]]

\* a stop that would leave the pause flag as it is
stop_playing_only(player, fault) ==
    IF fault THEN [out |-> Raise(FaultText), player |-> player]
    ELSE [out |-> Return("Music stopped"),
          player |-> [player EXCEPT !.is_playing = FALSE,
                                     !.threads = MarkStopped(@)]]

\* stop_music: pygame.mixer.music.stop() is not inside any handler; the
\* download threads are not told anything
stop_music(player, fault) ==
    IF fault THEN [out |-> Raise(FaultText), player |-> player]
    ELSE [out |-> Return("Music stopped"),
          player |-> [player EXCEPT !.is_playing = FALSE, !.is_paused = FALSE,
                                     !.threads = MarkStopped(@)]]

\* _download_and_play_thread: search_youtube; without a result the
\* loading flag is cleared and the thread returns
thread_search(player, i, found) ==
    IF found THEN [player EXCEPT !.threads[i].pc = "download"]
    ELSE [player EXCEPT !.threads[i].pc = "done", !.loading = FALSE]

\* _download_and_play_thread: download_audio, which loads the file and
\* starts playback (pygame.mixer.music.play()) before it returns True
thread_download(player, i, success) ==
    IF success
    THEN [player EXCEPT !.threads[i].pc = "playing", !.threads[i].played = TRUE]
    ELSE [player EXCEPT !.threads[i].pc = "finally"]

\* _download_and_play_thread:  self.is_playing = True
thread_playing(player, i) ==
    [player EXCEPT !.threads[i].pc = "paused", !.is_playing = TRUE]

\* _download_and_play_thread:  self.is_paused = False
thread_paused(player, i) ==
    [player EXCEPT !.threads[i].pc = "finally", !.is_paused = FALSE]

\* _download_and_play_thread:  finally: self.loading = False
thread_finally(player, i) ==
    [player EXCEPT !.threads[i].pc = "done", !.loading = FALSE]

pause_music(player, fault) ==
    IF player.is_playing /\ ~player.is_paused
    THEN IF fault THEN [out |-> Raise(FaultText), player |-> player]
         ELSE [out |-> Return("Music paused"),
               player |-> [player EXCEPT !.is_paused = TRUE]]
    ELSE [out |-> Return("Nothing to pause"), player |-> player]

resume_music(player, fault) ==
    IF player.is_paused
    THEN IF fault THEN [out |-> Raise(FaultText), player |-> player]
         ELSE [out |-> Return("Music resumed"),
               player |-> [player EXCEPT !.is_paused = FALSE]]
    ELSE [out |-> Return("Nothing to resume"), player |-> player]

\* play_music_smart: without yt-dlp nothing is started; with it the
\* download thread is started and the loading flag set
play_music_smart(player, song_name) ==
    IF ~player.YTDLP_AVAILABLE
    THEN [out |-> Return("YT-DLP not installed. Run: pip install yt-dlp"),
          player |-> player]
    ELSE [out |-> Return("Searching for '" \o song_name \o "'..."),
          player |-> [player EXCEPT !.loading = TRUE,
                                     !.downloads = @ + 1,
                                     !.threads = Append(@, DownloadThread(song_name))]]

\* the keyword parse handle_music_request does without a client
basic_music_request(command_lower, command) ==
    IF Contains(command_lower, "stop") THEN AiObject("stop", "")
    ELSE IF Contains(command_lower, "pause") THEN AiObject("pause", "")
    ELSE IF Contains(command_lower, "resume") THEN AiObject("resume", "")
    ELSE AiObject("play", extract_song_name(command))

\* the "Execute action" part of handle_music_request
execute_music_action(request, player, fault) ==
    CASE request.action = "stop" -> stop_music(player, fault)
      [] request.action = "pause" -> pause_music(player, fault)
      [] request.action = "resume" -> resume_music(player, fault)
      [] request.action = "play" ->
            IF request.search_query # ""
            THEN play_music_smart(player, request.search_query)
            ELSE [out |-> Return("What would you like me to play?"), player |-> player]
      [] OTHER -> [out |-> Return("Processed: " \o request.action), player |-> player]

\* handle_music_request: no handler of its own; groq_client says whether
\* the player has its text-generation client
handle_music_request(command, player, groq_client, ai, fault) ==
    IF command = ""
    THEN [out |-> Return("Please provide a music request!"), player |-> player]
    ELSE IF groq_client /\ ai.kind = "not_object"
    THEN \* request_data.get(...) on a value that is no dict
         [out |-> Raise("object has no attribute 'get'"), player |-> player]
    ELSE execute_music_action(
            IF groq_client THEN process_music_request_with_ai(command, ai)
            ELSE basic_music_request(Lower(command), command),
            player, fault)

\* modules/file_manager.py -------------------------------------------------

\* authenticate() as the interactive operations use it: the password is
\* accepted ("granted"), refused three times ("denied"), or input() fails
\* with an error other than KeyboardInterrupt ("eof"), which authenticate
\* does not catch and which is raised before the caller's try block
AuthOutcomes == {"granted", "denied", "eof"}

Interactive(op, message, auth, fault) ==
    CASE auth = "eof" -> Raise("EOF when reading a line")
      [] auth = "denied" -> Return("Authentication required for file operations")
      [] OTHER -> Guarded(op, message, fault)

file_manager_help == "File Manager Commands"

\* the if/elif chain of handle_file_request, on the lower-cased command
file_operation(command, auth, fault) ==
    IF Contains(command, "find") \/ Contains(command, "search")
    THEN Guarded("find_files", "Error occurred while searching for files. Try being more specific with your search criteria.", fault)
    ELSE IF Contains(command, "organize") \/ Contains(command, "clean")
    THEN Guarded("organize_downloads", "Error occurred while organizing files.", fault)
    ELSE IF Contains(command, "delete") /\ Contains(command, "empty")
    THEN Guarded("clean_empty_folders", "Error occurred while cleaning empty folders.", fault)
    ELSE IF Contains(command, "duplicate")
    THEN Guarded("find_duplicates", "Error occurred while searching for duplicates.", fault)
    ELSE IF Contains(command, "move")
    THEN Interactive("move_files_interactive", "Error during file move: " \o FaultText, auth, fault)
    ELSE IF Contains(command, "copy")
    THEN Interactive("copy_files_interactive", "Error during file copy: " \o FaultText, auth, fault)
    ELSE IF Contains(command, "create") \/ Contains(command, "new file") \/ Contains(command, "script")
    THEN Interactive("create_script_interactive", "Error creating script: " \o FaultText, auth, fault)
    ELSE IF Contains(command, "trash") \/ Contains(command, "delete")
    THEN Interactive("delete_files_interactive", "Error during file deletion: " \o FaultText, auth, fault)
    ELSE Return(file_manager_help)

\* handle_file_request: command = command.lower(), then the chain; no
\* handler of its own
handle_file_request(command, auth, fault) ==
    file_operation(Lower(command), auth, fault)

\* whether the chain reaches authenticate() for a lower-cased command
ReachesAuth(command) ==
    /\ ~(Contains(command, "find") \/ Contains(command, "search"))
    /\ ~(Contains(command, "organize") \/ Contains(command, "clean"))
    /\ ~(Contains(command, "delete") /\ Contains(command, "empty"))
    /\ ~Contains(command, "duplicate")
    /\ AnyIn({"move", "copy", "create", "new file", "script", "trash", "delete"}, command)

\* whether handle_file_request reaches authenticate() for this command
NeedsAuth(command) == ReachesAuth(Lower(command))

\* modules/calendar_manager.py ---------------------------------------------

\* a call of a method the class does not define
MissingMethod(name) ==
    Raise("'CalendarManager' object has no attribute '" \o name \o "'")

\* the if/elif chain of handle_calendar_request, on the lower-cased
\* command; get_week_events and cancel_event are called but defined nowhere
calendar_operation(command, fault) ==
    IF AnyIn({"schedule", "meeting", "appointment"}, command)
    THEN Guarded("schedule_event", "Error scheduling event. Please try again.", fault)
    ELSE IF AnyIn({"reminder", "remind"}, command)
    THEN Guarded("set_reminder", "Error setting reminder.", fault)
    ELSE IF AnyIn({"events", "appointments", "calendar"}, command)
    THEN IF Contains(command, "today")
         THEN Guarded("get_today_events", "Error retrieving today's events.", fault)
         ELSE IF Contains(command, "tomorrow")
         THEN Guarded("get_tomorrow_events", "Error retrieving tomorrow's events.", fault)
         ELSE IF Contains(command, "week")
         THEN MissingMethod("get_week_events")
         ELSE Guarded("get_today_events", "Error retrieving today's events.", fault)
    ELSE IF AnyIn({"delete", "cancel"}, command)
    THEN MissingMethod("cancel_event")
    ELSE IF Contains(command, "list reminders")
    THEN Guarded("list_reminders", "Error retrieving reminders.", fault)
    ELSE Return("I can help you schedule events, set reminders, or check your calendar. What would you like to do?")

\* handle_calendar_request: command = command.lower(), then the chain; no
\* handler of its own
handle_calendar_request(command, fault) ==
    calendar_operation(Lower(command), fault)

\* modules/news_fetcher.py -------------------------------------------------

\* the request get_news makes for a lower-cased query
news_operation(query) ==
    IF Contains(query, "headlines") \/ Contains(query, "top news")
    THEN "get_top_headlines"
    ELSE IF AnyIn({"technology", "tech", "business", "sports", "health",
                   "entertainment", "celebrity", "movies"}, query)
    THEN "get_category_news"
    ELSE "search_news"

get_news(query, fault) ==
    Guarded(news_operation(Lower(query)),
            "Sorry, I couldn't fetch the news right now. Please check your internet connection.",
            fault)

\* modules/weather.py ------------------------------------------------------

get_weather(query, fault) ==
    Guarded(IF Contains(Lower(query), "forecast")
            THEN "get_weather_forecast" ELSE "get_current_weather",
            "Sorry, I couldn't get weather information right now. Please check your internet connection.",
            fault)

\* modules/app_launcher.py -------------------------------------------------

extract_app_name(command) ==
    Join(WordsWithout(command,
            {"open", "launch", "start", "run", "execute", "the", "a", "an"}))

\* launch_application once the name is extracted
launch(app_name, fault) ==
    IF fault THEN Return("Error launching application: " \o FaultText)
    ELSE IF app_name = "" THEN Return("Please specify which application to launch.")
    ELSE Return(Result("launch " \o app_name))

launch_application(command, fault) == launch(extract_app_name(command), fault)

\* modules/system_monitor.py -----------------------------------------------

get_system_overview(fault) ==
    Guarded("get_system_overview", "Error retrieving system overview", fault)

get_system_info(fault) == get_system_overview(fault)

\* modules/email_handler.py ------------------------------------------------

send_email_interactive(fault) ==
    Guarded("send_email_interactive", "Error in email composition: " \o FaultText, fault)

get_saved_draft(fault) ==
    Guarded("get_saved_draft", "Error retrieving email draft.", fault)

send_saved_draft(fault) ==
    Guarded("send_saved_draft", "Error sending saved draft: " \o FaultText, fault)

send_email_auto(recipient, subject, message, fault) ==
    Guarded("send_email_auto to " \o recipient, "Error processing auto email: " \o FaultText, fault)

\* data/email_draft.txt: absent, or the draft send_email_interactive wrote
NoDraft == [exists |-> FALSE]
Draft(recipient, subject, body) ==
    [exists |-> TRUE, recipient |-> recipient, subject |-> subject, body |-> body]

\* EmailHandler(): the credentials as os.getenv gives them ("" for a
\* variable that is unset or empty); the draft file is not touched
EmailHandler(address, password) ==
    [email_address |-> address, email_password |-> password, draft |-> NoDraft]

\* not self.email_address or not self.email_password
NoCredentials(e) == e.email_address = "" \/ e.email_password = ""

\* the part of an address after its "@"
DomainOf(address) ==
    SubSeq(address, (CHOOSE k \in 1..Len(address) : CharAt(address, k) = "@") + 1,
           Len(address))

smtp_servers == {"gmail.com", "outlook.com", "hotmail.com", "yahoo.com", "icloud.com"}

setup_instructions == "Email Setup Required"

\* what a flow returns: its text, the handler with its draft file, and the
\* messages handed to the SMTP server
Flow(ret, e, sent) == [ret |-> ret, e |-> e, sent |-> sent]

\* send_email: smtp is what the server does with the login ("ok",
\* "auth_error"); every failure is returned as a text
send_email(e, to_email, subject, body, smtp) ==
    IF NoCredentials(e) THEN Flow(setup_instructions, e, << >>)
    ELSE IF DomainOf(e.email_address) \notin smtp_servers
    THEN Flow("Unsupported email provider: " \o DomainOf(e.email_address), e, << >>)
    ELSE IF smtp = "ok"
    THEN Flow("Email sent successfully to " \o to_email, e,
              <<[to |-> to_email, subject |-> subject, body |-> body]>>)
    ELSE Flow("Email authentication failed. Please check your email credentials.", e, << >>)

\* an answer that would count as consent unless it is "no"
not_refused(answer) == Lower(answer) # "no"

\* input(...).lower() in ['yes', 'y']
confirmed(answer) == Lower(answer) \in {"yes", "y"}

\* "" if not subject
OrDefault(text, default) == IF text = "" THEN default ELSE text

\* send_email_interactive: io holds what the user types (recipient,
\* subject, body, answer to the one yes/y prompt of the run) and whether
\* input() fails at that prompt (eof)
send_email_interactive_flow(e, io, smtp) ==
    IF Strip(io.recipient) = ""
    THEN Flow("Email cancelled - no recipient provided.", e, << >>)
    ELSE IF io.eof
    THEN Flow("Error in email composition: EOF when reading a line", e, << >>)
    ELSE IF NoCredentials(e)
    THEN IF confirmed(io.answer)
         THEN Flow("Email draft saved to data/email_draft.txt. Configure your email settings and try again!",
                   [e EXCEPT !.draft = Draft(Strip(io.recipient),
                                             OrDefault(Strip(io.subject), "Message from Specter"),
                                             OrDefault(io.body, "Message sent via Specter AI Assistant"))],
                   << >>)
         ELSE Flow("Email not sent - credentials not configured.", e, << >>)
    ELSE IF confirmed(io.answer)
    THEN send_email(e, Strip(io.recipient),
                    OrDefault(Strip(io.subject), "Message from Specter"),
                    OrDefault(io.body, "Message sent via Specter AI Assistant"), smtp)
    ELSE Flow("Email cancelled by user.", e, << >>)

\* the draft deleted after a successful send
AfterDraftSent(r) ==
    IF r.sent # << >>
    THEN Flow(r.ret \o "\nDraft deleted after successful send.",
              [r.e EXCEPT !.draft = NoDraft], r.sent)
    ELSE r

send_saved_draft_flow(e, io, smtp) ==
    IF ~e.draft.exists THEN Flow("No saved draft found to send.", e, << >>)
    ELSE IF NoCredentials(e) THEN Flow(setup_instructions, e, << >>)
    ELSE IF e.draft.recipient = ""
    THEN Flow("Draft format error - no recipient found.", e, << >>)
    ELSE IF io.eof
    THEN Flow("Error sending saved draft: EOF when reading a line", e, << >>)
    ELSE IF confirmed(io.answer)
    THEN AfterDraftSent(send_email(e, e.draft.recipient, e.draft.subject,
                                   e.draft.body, smtp))
    ELSE Flow("Draft sending cancelled.", e, << >>)

send_email_auto_flow(e, io, smtp) ==
    IF NoCredentials(e)
    THEN Flow("Email details auto-extracted!\n\nTo: " \o io.recipient
              \o "\n\n" \o setup_instructions, e, << >>)
    ELSE IF io.eof
    THEN Flow("Error processing auto email: EOF when reading a line", e, << >>)
    ELSE IF confirmed(io.answer)
    THEN send_email(e, io.recipient, io.subject, io.body, smtp)
    ELSE Flow("Email cancelled by user.", e, << >>)

\* whether a run of the flow reaches its "Send this ...?" prompt and the
\* user's answer is read there
AsksToSend(flow, e, io) ==
    /\ ~NoCredentials(e)
    /\ ~io.eof
    /\ CASE flow = "send_email_interactive" -> Strip(io.recipient) # ""
         [] flow = "send_saved_draft" -> e.draft.exists /\ e.draft.recipient # ""
         [] OTHER -> TRUE

\* ------------------------- modules/conversation.py: intent detection

Letters == UpperLetters \o LowerLetters
LocalChars == Letters \o Digits \o "._%+-"
DomainChars == Letters \o Digits \o ".-"

AllIn(s, from, to, chars) == \A k \in from..to : CharIn(CharAt(s, k), chars)

\* [a-zA-Z0-9._%+-]+@[a-zA-Z0-9.-]+\.[a-zA-Z]{2,}  matches s from i, with
\* its "@" at p and the dot before the final letters at q
EmailShape(s, i, p, q) ==
    /\ 1 <= i /\ i < p /\ p + 1 < q /\ q + 2 <= Len(s)
    /\ AllIn(s, i, p - 1, LocalChars)
    /\ CharAt(s, p) = "@"
    /\ AllIn(s, p + 1, q - 1, DomainChars)
    /\ CharAt(s, q) = "."
    /\ AllIn(s, q + 1, q + 2, Letters)

\* the match that starts at i, with its "@" at p and its last dot at q: the
\* final letters run as far as they can
EmailEnd(s, i, q) ==
    SubSeq(s, i, Max({e \in (q + 2)..Len(s) : AllIn(s, q + 1, e, Letters)}))

\* the match that starts at i and has its "@" at p: the domain part is as
\* long as it can be
EmailDomain(s, i, p) ==
    EmailEnd(s, i, Max({q \in 1..Len(s) : EmailShape(s, i, p, q)}))

\* the match that starts at i
EmailAt(s, i) ==
    EmailDomain(s, i, CHOOSE p \in 1..Len(s) : \E q \in 1..Len(s) : EmailShape(s, i, p, q))

\* the match of the leftmost start in starts, "" when there is none
EmailFrom(s, starts) == IF starts = {} THEN "" ELSE EmailAt(s, Min(starts))

\* re.search(email_pattern, message).group(1): the leftmost match, each
\* repetition as long as possible; "" when there is no match
EmailMatch(s) ==
    EmailFrom(s, {i \in 1..Len(s) :
                    \E p \in 1..Len(s), q \in 1..Len(s) : EmailShape(s, i, p, q)})

\* the text after the first occurrence of key, compared without case
\* (re.IGNORECASE); only called when the key occurs
AfterKey(s, key) == SubSeq(s, Find(Lower(s), key) + Len(key), Len(s))

\* group(1).strip() of  \s*[-:]?\s*(.+)$  on r1, the text after the key
\* without its leading whitespace; rest is that text with it
MessageText(rest, r1) ==
    LET sep == Len(r1) > 0 /\ CharIn(CharAt(r1, 1), "-:")
        r2 == IF sep THEN SubSeq(r1, 2, Len(r1)) ELSE r1
    IN  IF rest = "" THEN PyNone
        ELSE IF LStrip(r2) # "" THEN PyStr(Strip(r2))
        ELSE IF sep /\ r2 = "" THEN PyStr(CharAt(r1, 1))
        ELSE PyStr("")

MessageGroup(rest) == MessageText(rest, LStrip(rest))

\* message\s*[-:]?\s*(.+)$  and  say\s*[-:]?\s*(.+)$ : group(1).strip(),
\* or None.  (The middle pattern, following\s+message..., can only match
\* where the first one already does.)
MessageAfter(s, key) ==
    IF Contains(Lower(s), key) THEN MessageGroup(AfterKey(s, key)) ELSE PyNone

\* the first pattern that matches decides
FirstMatch(first, second) == IF first # PyNone THEN first ELSE second

ExtractMessage(s) == FirstMatch(MessageAfter(s, "message"), MessageAfter(s, "say"))

\* whether the rest r of the text ends the subject group:
\* (?:\s+with|\s+and|\s*-|$)
EndsSubject(r) ==
    \/ r = ""
    \/ StartsWith(LStrip(r), "-")
    \/ /\ Len(r) > 0 /\ IsSpace(CharAt(r, 1))
       /\ (StartsWith(Lower(LStrip(r)), "with") \/ StartsWith(Lower(LStrip(r)), "and"))

\* group(1).strip() of  \s+([^-\n]+?)(?:\s+with|\s+and|\s*-|$)  on the text
\* rest after "subject"; t is rest without its leading whitespace, lens
\* the lengths of t the group can have
SubjectText(rest, t, lens) ==
    IF rest = "" \/ ~IsSpace(CharAt(rest, 1)) THEN PyNone
    ELSE IF lens # {} THEN PyStr(Strip(SubSeq(t, 1, Min(lens))))
    ELSE IF Len(rest) - Len(t) >= 2 THEN PyStr("")
    ELSE PyNone

SubjectLengths(t) ==
    {n \in 1..Len(t) : /\ \A k \in 1..n : CharAt(t, k) \notin {"-", "\n"}
                       /\ EndsSubject(SubSeq(t, n + 1, Len(t)))}

SubjectGroup(rest) == SubjectText(rest, LStrip(rest), SubjectLengths(LStrip(rest)))

\* subject\s+([^-\n]+?)(?:\s+with|\s+and|\s*-|$) : group(1).strip(), or
\* None.  (The second pattern, with\s+subject..., can only match where
\* this one already does.)
ExtractSubject(s) ==
    IF Contains(Lower(s), "subject") THEN SubjectGroup(AfterKey(s, "subject")) ELSE PyNone

\* the dict manual_email_extraction builds for a recipient, None without one
EmailDetails(recipient, message) ==
    IF recipient = "" THEN PyNone
    ELSE [type |-> "dict",
          recipient |-> PyStr(recipient),
          subject |-> ExtractSubject(message),
          message |-> ExtractMessage(message)]

\* manual_email_extraction: the regex fallback; None without a recipient
manual_email_extraction(message) == EmailDetails(EmailMatch(message), message)

\* extract_email_details_llm.  Without a client: None.  With one, whatever
\* the service does, the result is that of manual_email_extraction:
\*   - the call fails: the outer handler runs the regex fallback;
\*   - the reply starts with a code fence: lines.startswith(...) is called
\*     on a list, raises AttributeError, and the outer handler runs the
\*     regex fallback;
\*   - any other reply: content.replace("```json", "").replace("```") has a
\*     replace with one argument, raises TypeError, and the outer handler
\*     runs the regex fallback.
\* manual_email_extraction tabulated over the texts of the model
ManualExtractionOf == [m \in ChatTexts |-> manual_email_extraction(m)]

extract_email_details_llm(message, client, extraction) ==
    IF ~client THEN PyNone
    ELSE IF ~extraction.ok THEN ManualExtractionOf[message]
    ELSE IF "fenced" \in DOMAIN extraction
    THEN ManualExtractionOf[message]    \* AttributeError at lines.startswith
    ELSE ManualExtractionOf[message]    \* TypeError at replace with one argument

\* what a parsed intent looks like
FunctionCall(function, params) ==
    [type |-> "dict", kind |-> "function_call", function |-> function,
     params |-> params]
NoParams == [type |-> "NoneType"]

\* detect_intent: None without a client, when the call fails, and when the
\* stripped reply does not start with FUNCTION:
detect_intent(message, client, intent) ==
    IF ~client \/ ~intent.ok THEN PyNone
    ELSE LET intent_response == Strip(intent.content) IN
         IF StartsWith(intent_response, "FUNCTION:")
         THEN FunctionCall(
                Strip(SplitFirst(SplitSecond(intent_response, "FUNCTION:"), "\n")),
                NoParams)
         ELSE PyNone

\* detect_intent with a client, tabulated over the replies of the model
IntentOf == [o \in IntentOutcomes |-> detect_intent("", TRUE, o)]

\* params.get(...) values handed on as text
Text(v) == IF v.type = "str" THEN v.val ELSE "None"

\* whether detect_intent_and_respond tries the e-mail extraction first
WantsExtraction(message) ==
    AnyIn({"send", "mail"}, Lower(message)) /\ Contains(message, "@")

WantsExtractionOf == [m \in ChatTexts |-> WantsExtraction(m)]

\* the value detect_intent_and_respond returns when chat was called
ChatReply(reply) == [result |-> PyStr(reply.ret), eng |-> reply.eng]

\* a classifier's result that would be taken whatever the extraction gave
respond_by_intent(email_data, intent_result, eng, message, client, llm, save) ==
    IF intent_result # PyNone
    THEN [result |-> intent_result, eng |-> eng]
    ELSE ChatReply(chat(eng, message, "", client, llm, save))

\* the returns of detect_intent_and_respond, from the extraction's result
\* (None when it was not tried) and detect_intent's
respond(email_data, intent_result, eng, message, client, llm, save) ==
    IF email_data # PyNone
    THEN [result |-> FunctionCall("send_email_auto",
                        [type |-> "dict",
                         recipient |-> email_data.recipient,
                         subject |-> email_data.subject,
                         message |-> email_data.message]),
          eng |-> eng]
    ELSE IF intent_result # PyNone
    THEN [result |-> intent_result, eng |-> eng]
    ELSE ChatReply(chat(eng, message, "", client, llm, save))

\* detect_intent_and_respond: [result, eng]; the result is a function call
\* or the text of a chat reply.  It is only called on an engine that has a
\* client (main.py line 321).
detect_intent_and_respond(eng, message, client, extraction, intent, llm, save) ==
    respond(IF WantsExtractionOf[message]
            THEN extract_email_details_llm(message, client, extraction)
            ELSE PyNone,
            IF client THEN IntentOf[intent] ELSE PyNone,
            eng, message, client, llm, save)

\* --------------------------------------------- modules/speech_engine.py

\* the threads that call speak(): the prompt loop and the listener
Callers == {"main", "listener"}

\* ThreadSafeTTS(): the queue empty, the flag set, the worker started (at
\* its while test).  spoken, enqueued, waiting_at_stop and spoken_at_stop
\* record what was said and queued; the program does not read them.
ThreadSafeTTS ==
    [is_running |-> TRUE, speech_queue |-> << >>,
     worker |-> "check", text |-> "", speaking |-> << >>,
     callers |-> [c \in Callers |-> [pc |-> "idle", text |-> ""]],
     calls |-> 0, stop |-> "idle",
     spoken |-> << >>, enqueued |-> << >>,
     waiting_at_stop |-> << >>, spoken_at_stop |-> 0]

\* a queue that would hand out the newest item first
put_first(queue, item) == <<item>> \o queue

\* queue.Queue.put
put(queue, item) == Append(queue, item)

\* speak, its test:  if self.is_running and text.strip()
speak_test(t, c, text) ==
    IF t.is_running /\ Strip(text) # ""
    THEN [t EXCEPT !.calls = @ + 1, !.callers[c] = [pc |-> "put", text |-> text]]
    ELSE [t EXCEPT !.calls = @ + 1]

\* speak, its put:  self.speech_queue.put(text)
speak_put(t, c) ==
    [t EXCEPT !.speech_queue = put(@, PyStr(t.callers[c].text)),
              !.enqueued = Append(@, t.callers[c].text),
              !.callers[c] = [pc |-> "idle", text |-> ""]]

\* _speech_worker:  while self.is_running
worker_test(t) ==
    [t EXCEPT !.worker = IF t.is_running THEN "get" ELSE "exited"]

\* _speech_worker:  text = self.speech_queue.get(timeout=1); queue.Empty
\* leads back to the while test, None ends the worker
worker_get(t) ==
    IF t.speech_queue = << >> THEN [t EXCEPT !.worker = "check"]
    ELSE IF Head(t.speech_queue) = PyNone
    THEN [t EXCEPT !.speech_queue = Tail(@), !.worker = "exited"]
    ELSE [t EXCEPT !.speech_queue = Tail(@), !.worker = "say",
                   !.text = Head(t.speech_queue).val]

\* _speech_worker:  self.engine.say(text); self.engine.runAndWait() begins,
\* or raises and the except clause leads back to the while test
worker_say(t, ok) ==
    IF ok
    THEN [t EXCEPT !.worker = "speaking", !.speaking = Append(@, t.text),
                   !.spoken = Append(@, t.text)]
    ELSE [t EXCEPT !.worker = "check"]

\* _speech_worker:  runAndWait() returns; task_done()
worker_done(t) ==
    [t EXCEPT !.worker = "check", !.speaking = << >>]

\* the texts that wait in the queue
Waiting(queue) ==
    [i \in 1..Len(SelectSeq(queue, IsStr)) |-> SelectSeq(queue, IsStr)[i].val]

\* stop:  self.is_running = False
stop_flag(t) ==
    [t EXCEPT !.is_running = FALSE, !.stop = "signal",
              !.waiting_at_stop = Waiting(t.speech_queue),
              !.spoken_at_stop = Len(t.spoken)]

\* stop:  self.speech_queue.put(None)
stop_signal(t) ==
    [t EXCEPT !.speech_queue = put(@, PyNone), !.stop = "join"]

\* stop:  self.worker.join(timeout=3) returns, the worker ended or not;
\* self.engine.stop()
stop_join(t) == [t EXCEPT !.stop = "done"]

\* -------------------------------------------- modules/system_monitor.py
\* (the monitoring thread)

\* SystemMonitor(): monitoring_active False, no loop started.  A loop is
\* at its while test ("check"), collecting, sleeping or ended; told and
\* again record that stop_monitoring ran while the loop was alive and
\* that the loop passed its while test after that.
SystemMonitor == [monitoring_active |-> FALSE, cpu_history |-> 0, loops |-> << >>]

\* deque(maxlen=60)
HistoryLen == 60

MonitoringLoop == [pc |-> "check", told |-> FALSE, again |-> FALSE]

start_monitoring(m) ==
    IF ~m.monitoring_active
    THEN [ret |-> "System monitoring started",
          m |-> [m EXCEPT !.monitoring_active = TRUE,
                          !.loops = Append(@, MonitoringLoop)]]
    ELSE [ret |-> "Monitoring already active", m |-> m]

\* stop_monitoring: the flag cleared; join(timeout=1) returns whether the
\* loop has ended or not
stop_monitoring(m) ==
    [ret |-> "System monitoring stopped",
     m |-> [m EXCEPT !.monitoring_active = FALSE,
                     !.loops = [i \in 1..Len(m.loops) |->
                                   IF m.loops[i].pc # "exited"
                                   THEN [m.loops[i] EXCEPT !.told = TRUE]
                                   ELSE m.loops[i]]]]

\* _monitoring_loop:  while self.monitoring_active
loop_test(m, i) ==
    IF m.monitoring_active
    THEN [m EXCEPT !.loops[i].pc = "collect", !.loops[i].again = m.loops[i].told]
    ELSE [m EXCEPT !.loops[i].pc = "exited"]

\* _monitoring_loop: the metrics collected and stored, or an error logged
loop_collect(m, i, ok) ==
    IF ok
    THEN [m EXCEPT !.loops[i].pc = "sleep",
                   !.cpu_history = IF @ < HistoryLen THEN @ + 1 ELSE @]
    ELSE [m EXCEPT !.loops[i].pc = "sleep"]

\* _monitoring_loop:  time.sleep(5), time.sleep(10) over
loop_sleep(m, i) == [m EXCEPT !.loops[i].pc = "check"]

\* ------------------------------------------------------ main.py: state

VARIABLES
    pc,                   \* "init" (initialize_modules), "loop" (at the prompt),
                          \* "pass_done" (a pass of the loop ended), "exit", "crashed"
    modules_status,       \* module -> whether its import succeeded
    slot,                 \* module attribute of the agent: "unset", "up", "None"
    init_idx,             \* the module initialize_modules constructs next
    groq_api_key,         \* whether GROQ_API_KEY is set: the engine has a client
    conversation_history, \* ConversationEngine.conversation_history
    history_file,         \* data/conversation_history.json
    current_mode,         \* ConversationEngine.current_mode
    clock,                \* datetime.now() of the next history entry
    player,               \* the MusicPlayer's flags and its download threads
    tts,                  \* the ThreadSafeTTS of the speech engine and its callers
    monitoring,           \* the SystemMonitor's monitoring flag and its loops
    email,                \* the EmailHandler's credentials and data/email_draft.txt
    last                  \* what the last step did, and with which inputs

vars == <<pc, modules_status, slot, init_idx, groq_api_key,
          conversation_history, history_file, current_mode, clock, player,
          tts, monitoring, email, last>>

\* the module attributes, in the order initialize_modules sets them
InitOrder == <<"speech", "conversation", "file_manager", "music", "launcher",
               "news", "calendar", "system", "weather", "email">>

Modules == {InitOrder[i] : i \in 1..Len(InitOrder)}

Eng == [history |-> conversation_history, file |-> history_file,
        mode |-> current_mode, clock |-> clock]

\* self.x is truthy
Available(m) == slot[m] = "up"

\* self.conversation.openai_client: set by the constructor iff the key is
openai_client == groq_api_key

\* ------------------------------------------- main.py: process_command

\* fallback_conversation: the agent's own table
agent_responses == <<
    [key |-> "hello", response |-> "Hello! I'm Specter, your AI assistant. How can I help you today?"],
    [key |-> "hi", response |-> "Hi there! What can I do for you?"],
    [key |-> "how are you", response |-> "I'm doing well and ready to help! What would you like to do?"],
    [key |-> "what can you do", response |-> "I can help with files, launching apps, system info, and more! Type 'help' to see all commands."],
    [key |-> "thank you", response |-> "You're welcome! I'm always here to help."],
    [key |-> "thanks", response |-> "No problem! Anything else I can help with?"],
    [key |-> "who are you", response |-> "I'm Specter, your personal AI assistant built for the hackathon!"] >>

fallback_conversation(command) ==
    TableLookup(agent_responses, command,
        "I understand you're trying to chat! For full AI conversation, configure OpenAI or Gemini API keys in your .env file. For now, I can help with specific tasks - type 'help' to see what I can do!")

\* the function names the dispatch chain knows, with the attribute each
\* tests, the entry point it calls and the text of its else branch
\* ("": the branch has no else)
FunctionTable == <<
    [function |-> "send_email", module |-> "email", entry |-> "send_email_interactive", unavailable |-> "Email module not available"],
    [function |-> "play_music", module |-> "music", entry |-> "handle_music_request", unavailable |-> "Music module not available"],
    [function |-> "manage_files", module |-> "file_manager", entry |-> "handle_file_request", unavailable |-> "File manager not available"],
    [function |-> "get_news", module |-> "news", entry |-> "get_news", unavailable |-> "News module not available"],
    [function |-> "get_weather", module |-> "weather", entry |-> "get_weather", unavailable |-> "Weather module not available"],
    [function |-> "schedule_event", module |-> "calendar", entry |-> "handle_calendar_request", unavailable |-> "Calendar module not available"],
    [function |-> "launch_app", module |-> "launcher", entry |-> "launch_application", unavailable |-> "App launcher not available"],
    [function |-> "system_info", module |-> "system", entry |-> "get_system_info", unavailable |-> "System monitor not available"],
    [function |-> "get_draft", module |-> "email", entry |-> "get_saved_draft", unavailable |-> "Email module not available"],
    [function |-> "send_draft", module |-> "email", entry |-> "send_saved_draft", unavailable |-> "Email module not available"],
    [function |-> "send_email_auto", module |-> "email", entry |-> "send_email_auto", unavailable |-> ""] >>

\* the keyword rules of the elif chain, in its order
KeywordTable == <<
    [words |-> {"play", "music", "song"}, module |-> "music", entry |-> "handle_music_request", unavailable |-> "Music module not available"],
    [words |-> {"email", "send mail", "send email"}, module |-> "email", entry |-> "send_email_interactive", unavailable |-> "Email module not available"],
    [words |-> {"find", "file", "folder", "organize"}, module |-> "file_manager", entry |-> "handle_file_request", unavailable |-> "File manager not available"],
    [words |-> {"news", "headlines"}, module |-> "news", entry |-> "get_news", unavailable |-> "News module not available"],
    [words |-> {"weather", "forecast"}, module |-> "weather", entry |-> "get_weather", unavailable |-> "Weather module not available"],
    [words |-> {"calendar", "schedule", "meeting"}, module |-> "calendar", entry |-> "handle_calendar_request", unavailable |-> "Calendar module not available"],
    [words |-> {"open", "launch", "start"}, module |-> "launcher", entry |-> "launch_application", unavailable |-> "App launcher not available"],
    [words |-> {"system", "performance"}, module |-> "system", entry |-> "get_system_info", unavailable |-> "System monitor not available"] >>

\* the index of the first row of a table that satisfies Test, 0 if none
FirstRow(table, Test(_)) ==
    LET hits == {i \in 1..Len(table) : Test(table[i])}
    IN  IF hits = {} THEN 0 ELSE CHOOSE i \in hits : \A j \in hits : i <= j

\* a chain in which the last rule that matches would win
last_keyword_rule(command_clean) ==
    Max({0} \cup {i \in 1..Len(KeywordTable) : AnyIn(KeywordTable[i].words, command_clean)})

\* the keyword rule the elif chain takes for command_clean, 0 for its else
keyword_rule(command_clean) ==
    FirstRow(KeywordTable, LAMBDA row : AnyIn(row.words, command_clean))

\* keyword_rule of command.lower().strip(), tabulated over the commands
KeywordRuleOf == [c \in Commands |-> keyword_rule(Strip(Lower(c)))]

\* a chain whose last branch would take every name no other branch takes
catch_all_branch(function_name) ==
    IF \E i \in 1..Len(FunctionTable) : FunctionTable[i].function = function_name
    THEN FirstRow(FunctionTable, LAMBDA row : row.function = function_name)
    ELSE Len(FunctionTable)

\* the branch of the function-name chain, 0 when no branch matches
function_branch(function_name) ==
    FirstRow(FunctionTable, LAMBDA row : row.function = function_name)

\* a call of a module's entry point with the arguments the router passes:
\* [out, player]
Invoke(entry, command, params, env) ==
    CASE entry = "handle_music_request" ->
            handle_music_request(command, player, groq_api_key, env.ai, env.fault)
      [] entry = "handle_file_request" ->
            [out |-> handle_file_request(command, env.auth, env.fault), player |-> player]
      [] entry = "get_news" ->
            [out |-> get_news(command, env.fault), player |-> player]
      [] entry = "get_weather" ->
            [out |-> get_weather(command, env.fault), player |-> player]
      [] entry = "handle_calendar_request" ->
            [out |-> handle_calendar_request(command, env.fault), player |-> player]
      [] entry = "launch_application" ->
            [out |-> launch_application(command, env.fault), player |-> player]
      [] entry = "get_system_info" ->
            [out |-> get_system_info(env.fault), player |-> player]
      [] entry = "send_email_interactive" ->
            [out |-> send_email_interactive(env.fault), player |-> player]
      [] entry = "get_saved_draft" ->
            [out |-> get_saved_draft(env.fault), player |-> player]
      [] entry = "send_saved_draft" ->
            [out |-> send_saved_draft(env.fault), player |-> player]
      [] entry = "send_email_auto" ->
            [out |-> IF params.type = "dict"
                     THEN send_email_auto(Text(params.recipient), Text(params.subject),
                                          Text(params.message), env.fault)
                     ELSE send_email_auto("None", "None", "None", env.fault),
             player |-> player]

\* the outcome of the body of process_command:
\*   ret, exc  what the body returns or raises
\*   route     "function", "chat_reply", "keyword" or "default"
\*   rule      the function branch or keyword rule taken (0: none)
\*   invoked   the entry points of capability modules that were called
\*   chatted   whether ConversationEngine.chat ran
Outcome(out, route, rule, invoked, chatted, eng, pl) ==
    [ret |-> out.ret, exc |-> out.exc, route |-> route, rule |-> rule,
     invoked |-> invoked, chatted |-> chatted, eng |-> eng, player |-> pl]

\* a row of either table: the module is called when available, else the
\* text of the else branch is returned
RowOutcome(row, route, rule, command, params, env) ==
    IF Available(row.module)
    THEN LET call == Invoke(row.entry, command, params, env)
         IN  Outcome(call.out, route, rule, <<row.entry>>, FALSE, Eng, call.player)
    ELSE Outcome(Return(row.unavailable), route, rule, << >>, FALSE, Eng, player)

\* the outcome of a call of ConversationEngine.chat whose text is returned
ChatOutcome(reply, route) ==
    Outcome(Return(reply.ret), route, 0, << >>, TRUE, reply.eng, player)

\* the else of the keyword chain (lines 449-458)
conversation_default(command, env) ==
    IF Available("conversation")
    THEN ChatOutcome(chat(Eng, command, "", openai_client, env.llm, env.save), "default")
    ELSE Outcome(Return(fallback_conversation(command)), "default", 0,
                 << >>, FALSE, Eng, player)

\* whether process_command consults the classifier (line 321)
uses_intent == Available("conversation") /\ openai_client

\* what process_command holds in intent_result when the classifier is not
\* consulted
NoIntent == [result |-> PyNone, eng |-> Eng]

\* the branch of the function chain that returns for a function call: 0
\* when no branch matches the name, and when the matching branch has no
\* else and its module is unavailable
returning_branch(branch) ==
    IF branch # 0 /\ (Available(FunctionTable[branch].module)
                      \/ FunctionTable[branch].unavailable # "")
    THEN branch ELSE 0

\* process_command after detect_intent_and_respond gave d: the branch of
\* the function chain when there is one, else the text of a chat reply,
\* else the keyword rule, else the conversation default
dispatch(d, branch, rule, command, env) ==
    IF branch # 0
    THEN RowOutcome(FunctionTable[branch], "function", branch, command, d.result.params, env)
    ELSE IF d.result.type = "str"
    THEN Outcome(Return(d.result.val), "chat_reply", 0, << >>, TRUE, d.eng, player)
    ELSE IF rule # 0
    THEN RowOutcome(KeywordTable[rule], "keyword", rule, command, NoParams, env)
    ELSE conversation_default(command, env)

\* the function-name chain (lines 325-398) and the keyword chain (405-458);
\* the outcome also records intent_result
dispatch_chains(d, command, env) ==
    dispatch(d,
             IF d.result.type = "dict"
             THEN returning_branch(function_branch(d.result.function)) ELSE 0,
             KeywordRuleOf[command], command, env)
    @@ [intent_result |-> d.result]

\* the body of the try block of process_command
process_command_body(command, env) ==
    dispatch_chains(IF uses_intent
                    THEN detect_intent_and_respond(Eng, command, openai_client,
                             env.extraction, env.intent, env.llm, env.save)
                    ELSE NoIntent,
                    command, env)

\* the except clause of process_command: the text for an exception
error_response(exc) == PyStr("Sorry, I encountered an error: " \o exc)

\* process_command without its except clause: what its body raises goes on
\* to the caller
no_except_clause(r) == r @@ [raised |-> ""]

\* the  except Exception  clause of process_command around an outcome of
\* its body
except_clause(r) ==
    IF r.exc # ""
    THEN [r EXCEPT !.ret = error_response(r.exc), !.exc = ""] @@ [raised |-> r.exc]
    ELSE r @@ [raised |-> ""]

\* process_command: the body inside  try: ... except Exception
process_command(command, env) == except_clause(process_command_body(command, env))

\* ------------------------------------------------ main.py: start-up

\* a block without its try: a constructor that raises ends the start-up
unguarded_init_block(status, ctor) ==
    [value |-> IF status /\ ctor = "ok" THEN "up" ELSE "None",
     crashed |-> status /\ ctor = "raises"]

\* one block of initialize_modules: the attribute's value and whether the
\* agent survives, from the import status and what the constructor does
init_block(status, ctor) ==
    [value |-> IF status /\ ctor = "ok" THEN "up" ELSE "None", crashed |-> FALSE]

\* the modules that are or will be unavailable
Down == {m \in Modules : ~modules_status[m] \/ slot[m] = "None"}

Init ==
    /\ pc = "init"
    /\ modules_status \in {f \in [Modules -> BOOLEAN] :
                              Cardinality({m \in Modules : ~f[m]}) <= MaxDown}
    /\ slot = [m \in Modules |-> "unset"]
    /\ init_idx = 1
    /\ groq_api_key \in BOOLEAN
    /\ conversation_history = << >>
    /\ history_file = FileAbsent
    /\ current_mode = "friend"
    /\ clock = 0
    /\ player = MusicPlayer(FALSE)
    /\ tts = ThreadSafeTTS
    /\ monitoring = SystemMonitor
    /\ email = EmailHandler("", "")
    /\ last = [kind |-> "none"]

\* one block of initialize_modules on module m, whose constructor does ctor
InitBlock(m, ctor, b) ==
    /\ slot' = [slot EXCEPT ![m] = b.value]
    /\ conversation_history' =
           IF m = "conversation" /\ b.value = "up"
           THEN load_conversation_history(history_file)
           ELSE conversation_history
    /\ pc' = IF b.crashed THEN "crashed"
             ELSE IF init_idx = Len(InitOrder) THEN "pass_done" ELSE "init"
    /\ init_idx' = IF init_idx = Len(InitOrder) THEN init_idx ELSE init_idx + 1
    /\ last' = [kind |-> "init", module |-> m, status |-> modules_status[m],
                ctor |-> ctor, before |-> slot]

\* initialize_modules, one block per step; a constructor is only called
\* when the import succeeded
InitModule ==
    /\ pc = "init"
    /\ \E ctor \in {"ok", "raises"} :
        /\ ctor = "raises" => modules_status[InitOrder[init_idx]] /\ Cardinality(Down) < MaxDown
        /\ InitBlock(InitOrder[init_idx], ctor,
                     init_block(modules_status[InitOrder[init_idx]], ctor))
    /\ UNCHANGED <<email, tts, monitoring, modules_status, groq_api_key, history_file, current_mode, clock, player>>

\* ------------------------------------------- main.py: listen_and_respond

ReservedWords == {"quit", "exit", "bye", "goodbye"}

\* what one pass of the loop does with the line read (lines 278-303)
shell_dispatch(line) ==
    LET user_input == Strip(line)
        user_input_lower == Lower(user_input)
    IN  IF user_input = "" THEN "empty"
        ELSE IF user_input_lower \in ReservedWords THEN "quit"
        ELSE IF user_input_lower = "help" THEN "help"
        ELSE IF user_input_lower = "status" THEN "status"
        ELSE IF user_input_lower = "install" THEN "install"
        ELSE "command"

\* a loop without its  except Exception : any exception ends it
loop_without_except(kind, exc) ==
    IF kind \in {"quit", "interrupt"} \/ exc # "" THEN "exit" ELSE "pass_done"

\* where the loop stands after a pass: it breaks after shutdown() and on
\* KeyboardInterrupt; any other exception is printed and the loop goes on
loop_after(kind, exc) ==
    IF kind \in {"quit", "interrupt"} THEN "exit" ELSE "pass_done"

\* shell_dispatch tabulated over the lines of the model
InputKind == [line \in Lines |-> shell_dispatch(line)]

EmptyInput ==
    /\ pc = "loop"
    /\ \E line \in UserInputs :
        /\ InputKind[line] = "empty"
        /\ last' = [kind |-> "empty", input |-> line]
        /\ pc' = loop_after("empty", "")
    /\ UNCHANGED <<email, tts, monitoring, modules_status, slot, init_idx, groq_api_key,
                   conversation_history, history_file, current_mode, clock, player>>

\* quit, exit, bye, goodbye: shutdown() stops the music (errors ignored)
Quit ==
    /\ pc = "loop"
    /\ \E line \in UserInputs, fault \in BOOLEAN :
        /\ InputKind[line] = "quit"
        /\ fault => Available("music")
        /\ last' = [kind |-> "quit", input |-> line]
        /\ player' = IF Available("music") THEN stop_music(player, fault).player
                     ELSE player
        /\ pc' = loop_after("quit", "")
    /\ UNCHANGED <<email, tts, monitoring, modules_status, slot, init_idx, groq_api_key,
                   conversation_history, history_file, current_mode, clock>>

\* help, status, install: printed, nothing changes
ShellCommand ==
    /\ pc = "loop"
    /\ \E line \in UserInputs :
        /\ InputKind[line] \in {"help", "status", "install"}
        /\ last' = [kind |-> InputKind[line], input |-> line]
        /\ pc' = loop_after(InputKind[line], "")
    /\ UNCHANGED <<email, tts, monitoring, modules_status, slot, init_idx, groq_api_key,
                   conversation_history, history_file, current_mode, clock, player>>

DefaultEnv == [intent |-> LlmError, extraction |-> LlmError, llm |-> LlmError,
               save |-> "ok", ai |-> AiError, auth |-> "granted", fault |-> FALSE]

\* the answers of the environment that a run of process_command asks for,
\* given the outcome probe of the run in which nothing fails
Asked(probe, command, intent, extraction) ==
    {[intent |-> intent, extraction |-> extraction, llm |-> llm,
      save |-> save, ai |-> ai, auth |-> auth, fault |-> fault] :
        llm \in (IF probe.chatted /\ openai_client THEN ChatOutcomes ELSE {LlmError}),
        save \in (IF probe.chatted THEN SaveOutcomes ELSE {"ok"}),
        ai \in (IF probe.invoked = <<"handle_music_request">> /\ groq_api_key
                THEN AiOutcomes ELSE {AiError}),
        auth \in (IF probe.invoked = <<"handle_file_request">> /\ NeedsAuth(command)
                  THEN AuthOutcomes ELSE {"granted"}),
        fault \in (IF probe.invoked # << >> THEN BOOLEAN ELSE {FALSE})}

\* a pass of the loop on a line that is a command:
\* process_command(user_input), and the response printed
Pass(line, command, env, r) ==
    /\ conversation_history' = r.eng.history
    /\ history_file' = r.eng.file
    /\ current_mode' = r.eng.mode
    /\ clock' = r.eng.clock
    /\ player' = r.player
    /\ last' = [kind |-> "command", input |-> line, command |-> command,
                env |-> env, ret |-> r.ret, exc |-> r.exc,
                raised |-> r.raised, route |-> r.route, rule |-> r.rule,
                invoked |-> r.invoked, chatted |-> r.chatted,
                intent_result |-> r.intent_result,
                uses_intent |-> uses_intent,
                before |-> conversation_history]
    /\ pc' = loop_after("command", r.exc)
    /\ UNCHANGED <<email, tts, monitoring, modules_status, slot, init_idx, groq_api_key>>

\* any line of lines that is no shell command.  The environment's answers
\* are drawn only where the code asks for them.
CommandFrom(lines) ==
    /\ pc = "loop"
    /\ Len(conversation_history) + 2 <= MaxSessionHistory
    /\ \E line \in lines :
        /\ InputKind[line] = "command"
        /\ \E command \in {Strip(line)} :
           \E intent \in (IF uses_intent THEN IntentOutcomes ELSE {LlmError}),
              extraction \in (IF uses_intent /\ WantsExtractionOf[command]
                              THEN ExtractionOutcomes ELSE {LlmError}) :
           \E probe \in {process_command(command,
                            [DefaultEnv EXCEPT !.intent = intent,
                                               !.extraction = extraction])} :
           \E env \in Asked(probe, command, intent, extraction) :
           \E r \in {process_command(command, env)} :
               Pass(line, command, env, r)

Command == CommandFrom(UserInputs)

\* Ctrl-C at the prompt or during a pass
KeyboardInterrupt ==
    /\ pc = "loop"
    /\ last' = [kind |-> "interrupt"]
    /\ pc' = loop_after("interrupt", "")
    /\ UNCHANGED <<email, tts, monitoring, modules_status, slot, init_idx, groq_api_key,
                   conversation_history, history_file, current_mode, clock, player>>

\* input() fails (end of input): caught by the loop's  except Exception
InputError ==
    /\ pc = "loop"
    /\ last' = [kind |-> "input_error"]
    /\ pc' = loop_after("input_error", "EOF when reading a line")
    /\ UNCHANGED <<email, tts, monitoring, modules_status, slot, init_idx, groq_api_key,
                   conversation_history, history_file, current_mode, clock, player>>

\* the loop is back at the prompt
Prompt ==
    /\ pc = "pass_done"
    /\ Len(conversation_history) + 2 <= MaxSessionHistory
    /\ pc' = "loop"
    /\ last' = [kind |-> "none"]
    /\ UNCHANGED <<email, tts, monitoring, modules_status, slot, init_idx, groq_api_key,
                   conversation_history, history_file, current_mode, clock, player>>

Next ==
    \/ InitModule
    \/ Prompt
    \/ EmptyInput
    \/ Quit
    \/ ShellCommand
    \/ Command
    \/ KeyboardInterrupt
    \/ InputError

Spec == Init /\ [][Next]_vars

\* --------------------------- the keyword chain on two-keyword commands

\* the agent at its prompt, every module available
AtPrompt ==
    /\ pc = "loop"
    /\ modules_status = [m \in Modules |-> TRUE]
    /\ slot = [m \in Modules |-> "up"]
    /\ init_idx = Len(InitOrder)
    /\ groq_api_key \in BOOLEAN
    /\ conversation_history = << >>
    /\ history_file = FileAbsent
    /\ current_mode = "friend"
    /\ clock = 0
    /\ player = MusicPlayer(FALSE)
    /\ tts = ThreadSafeTTS
    /\ monitoring = SystemMonitor
    /\ email = EmailHandler("", "")
    /\ last = [kind |-> "none"]

KeywordCommand == CommandFrom(KeywordInputs)

NextKeywords ==
    \/ KeywordCommand
    \/ Prompt

SpecKeywords == AtPrompt /\ [][NextKeywords]_vars

\* ------------------------------- the conversation engine on its own

\* what data/conversation_history.json may hold when the engine is made
StoredFiles ==
    {FileAbsent, FileCorrupt, FileJson(<< >>),
     FileJson(<<Turn("user", "hello", 0), Turn("assistant", "Hi!", 1)>>)}

\* ConversationEngine(): friend mode, the history loaded from the file
EngineMade ==
    /\ pc = "engine"
    /\ modules_status = [m \in Modules |-> TRUE]
    /\ slot = [m \in Modules |-> IF m = "conversation" THEN "up" ELSE "unset"]
    /\ init_idx = 1
    /\ groq_api_key \in BOOLEAN
    /\ history_file \in StoredFiles
    /\ conversation_history = load_conversation_history(history_file)
    /\ current_mode = "friend"
    /\ clock = 2
    /\ player = MusicPlayer(FALSE)
    /\ tts = ThreadSafeTTS
    /\ monitoring = SystemMonitor
    /\ email = EmailHandler("", "")
    /\ last = [kind |-> "none"]

\* the engine's state after a call that gave r
EngineCall(r, call) ==
    /\ conversation_history' = r.eng.history
    /\ history_file' = r.eng.file
    /\ current_mode' = r.eng.mode
    /\ clock' = r.eng.clock
    /\ last' = call @@ [ret |-> r.ret, before |-> conversation_history,
                        file_before |-> history_file, mode_before |-> current_mode]
    /\ UNCHANGED <<email, tts, monitoring, pc, modules_status, slot, init_idx, groq_api_key, player>>

\* the mode arguments given to chat: none, a mode, a name that is no mode
ChatModes == {"", "workmate", "boss"}

\* a call of chat with an answer of the service and an outcome of the save
ChatCall(message, mode, llm, save) ==
    \E r \in {chat(Eng, message, mode, openai_client, llm, save)} :
        EngineCall(r, [kind |-> "chat", message |-> message, mode |-> mode,
                       llm |-> llm, save |-> save,
                       request |-> chat_request(Eng, message, mode, openai_client)])

\* chat(message) and chat(message, mode)
Chat ==
    /\ pc = "engine"
    /\ Len(conversation_history) + 2 <= MaxHistory
    /\ clock + 2 <= MaxClock
    /\ \E message \in ChatMessages, mode \in ChatModes,
          llm \in (IF openai_client THEN ChatOutcomes ELSE {LlmError}),
          save \in SaveOutcomes :
        ChatCall(message, mode, llm, save)

ChangeMode ==
    /\ pc = "engine"
    /\ \E new_mode \in {"therapist", "Workmate", "friend", "boss"} :
        \E r \in {change_mode(Eng, new_mode)} :
            EngineCall(r, [kind |-> "change_mode", new_mode |-> new_mode])

ClearHistory ==
    /\ pc = "engine"
    /\ \E save \in SaveOutcomes :
        \E r \in {clear_history(Eng, save)} :
            EngineCall(r, [kind |-> "clear_history", save |-> save,
                           again |-> last.kind = "clear_history"])

\* what the engine's caller sees of detect_intent_and_respond
Routed(d) == [ret |-> d.result, eng |-> d.eng]

\* the messages and classifier replies given to detect_intent_and_respond
RouteMessages == {"hello", "send mail to bob@example.com"}
RouteIntents == {LlmText("CHAT: Continue with normal conversation"),
                 LlmText("FUNCTION: get_news\nREASON: the user asks for it")}

\* detect_intent_and_respond(message): a function call, or the reply of
\* chat(message)
Route ==
    /\ pc = "engine"
    /\ Len(conversation_history) + 2 <= MaxHistory
    /\ clock + 2 <= MaxClock
    /\ \E message \in RouteMessages, intent \in RouteIntents,
          llm \in (IF openai_client THEN ChatOutcomes ELSE {LlmError}),
          save \in SaveOutcomes :
        \E extraction \in (IF WantsExtractionOf[message] /\ openai_client
                            THEN ExtractionOutcomes ELSE {LlmError}) :
            \E r \in {Routed(detect_intent_and_respond(Eng, message, openai_client,
                                                        extraction, intent, llm, save))} :
                EngineCall(r, [kind |-> "route", message |-> message, intent |-> intent,
                               extraction |-> extraction, llm |-> llm, save |-> save])

NextChat ==
    \/ Chat
    \/ Route
    \/ ChangeMode
    \/ ClearHistory

SpecChat == EngineMade /\ [][NextChat]_vars

\* ------------------- the conversation engine on a long stored history

\* a stored history of n turns, user and assistant in turn
LongHistory(n) ==
    [i \in 1..n |-> Turn(IF i % 2 = 1 THEN "user" ELSE "assistant",
                         LongText(i), i)]

\* history files around the length of the context window
ContextFiles ==
    {FileJson(LongHistory(n)) : n \in (RecentWindow - 2)..(RecentWindow + 1)}

\* ConversationEngine() on such a file
ContextMade ==
    /\ pc = "engine"
    /\ modules_status = [m \in Modules |-> TRUE]
    /\ slot = [m \in Modules |-> IF m = "conversation" THEN "up" ELSE "unset"]
    /\ init_idx = 1
    /\ groq_api_key \in BOOLEAN
    /\ history_file \in ContextFiles
    /\ conversation_history = load_conversation_history(history_file)
    /\ current_mode = "friend"
    /\ clock = Len(load_conversation_history(history_file)) + 1
    /\ player = MusicPlayer(FALSE)
    /\ tts = ThreadSafeTTS
    /\ monitoring = SystemMonitor
    /\ email = EmailHandler("", "")
    /\ last = [kind |-> "none"]

ContextChat ==
    /\ pc = "engine"
    /\ Len(conversation_history) + 2 <= MaxContextHistory
    /\ \E message \in ChatMessages, mode \in ChatModes,
          llm \in (IF openai_client THEN ChatOutcomes ELSE {LlmError}),
          save \in SaveOutcomes :
        ChatCall(message, mode, llm, save)

NextContext == ContextChat

SpecContext == ContextMade /\ [][NextContext]_vars

\* ------------------------------------ a module's threads on their own

\* what a specification of one module leaves alone
Rest == <<email, pc, modules_status, slot, init_idx, groq_api_key,
          conversation_history, history_file, current_mode, clock, last>>

\* the agent's state while one module is looked at
Aside(module) ==
    /\ pc = module
    /\ modules_status = [m \in Modules |-> TRUE]
    /\ slot = [m \in Modules |-> "unset"]
    /\ init_idx = 1
    /\ groq_api_key = FALSE
    /\ conversation_history = << >>
    /\ history_file = FileAbsent
    /\ current_mode = "friend"
    /\ clock = 0
    /\ last = [kind |-> "none"]

\* ------------------------------------------------ the speech worker

SpeechMade ==
    /\ Aside("speech")
    /\ player = MusicPlayer(FALSE)
    /\ tts = ThreadSafeTTS
    /\ monitoring = SystemMonitor
    /\ email = EmailHandler("", "")

\* the text of the n-th call of speak
Utterance(n) == "utterance " \o ToString(n)

\* a thread calls speak(text) and makes its test
SpeakTest ==
    /\ tts.calls < MaxUtterances
    /\ \E c \in Callers, blank \in BOOLEAN :
        /\ tts.callers[c].pc = "idle"
        /\ tts' = speak_test(tts, c, IF blank THEN "  " ELSE Utterance(tts.calls + 1))
    /\ UNCHANGED <<Rest, player, monitoring>>

SpeakPut ==
    /\ \E c \in Callers :
        /\ tts.callers[c].pc = "put"
        /\ tts' = speak_put(tts, c)
    /\ UNCHANGED <<Rest, player, monitoring>>

WorkerTest ==
    /\ tts.worker = "check"
    /\ tts' = worker_test(tts)
    /\ UNCHANGED <<Rest, player, monitoring>>

WorkerGet ==
    /\ tts.worker = "get"
    /\ tts' = worker_get(tts)
    /\ UNCHANGED <<Rest, player, monitoring>>

WorkerSay ==
    /\ tts.worker = "say"
    /\ \E ok \in BOOLEAN : tts' = worker_say(tts, ok)
    /\ UNCHANGED <<Rest, player, monitoring>>

WorkerDone ==
    /\ tts.worker = "speaking"
    /\ tts' = worker_done(tts)
    /\ UNCHANGED <<Rest, player, monitoring>>

StopFlag ==
    /\ tts.stop = "idle"
    /\ tts' = stop_flag(tts)
    /\ UNCHANGED <<Rest, player, monitoring>>

StopSignal ==
    /\ tts.stop = "signal"
    /\ tts' = stop_signal(tts)
    /\ UNCHANGED <<Rest, player, monitoring>>

StopJoin ==
    /\ tts.stop = "join"
    /\ tts' = stop_join(tts)
    /\ UNCHANGED <<Rest, player, monitoring>>

NextSpeech ==
    \/ SpeakTest
    \/ SpeakPut
    \/ WorkerTest
    \/ WorkerGet
    \/ WorkerSay
    \/ WorkerDone
    \/ StopFlag
    \/ StopSignal
    \/ StopJoin

SpecSpeech == SpeechMade /\ [][NextSpeech]_vars

\* ------------------------------------------------ the download threads

MusicMade ==
    /\ Aside("music")
    /\ player = MusicPlayer(TRUE)
    /\ tts = ThreadSafeTTS
    /\ monitoring = SystemMonitor
    /\ email = EmailHandler("", "")

MusicCommands == {"play despacito", "stop music", "pause", "resume"}

\* the main thread passes a command to handle_music_request
MusicRequest ==
    /\ \E command \in MusicCommands, fault \in BOOLEAN :
        /\ Contains(command, "play") => Len(player.threads) < MaxDownloads
        /\ player' = handle_music_request(command, player, FALSE, AiError, fault).player
    /\ UNCHANGED <<Rest, tts, monitoring>>

ThreadSearch ==
    /\ \E i \in 1..Len(player.threads), found \in BOOLEAN :
        /\ player.threads[i].pc = "search"
        /\ player' = thread_search(player, i, found)
    /\ UNCHANGED <<Rest, tts, monitoring>>

ThreadDownload ==
    /\ \E i \in 1..Len(player.threads), success \in BOOLEAN :
        /\ player.threads[i].pc = "download"
        /\ player' = thread_download(player, i, success)
    /\ UNCHANGED <<Rest, tts, monitoring>>

ThreadPlaying ==
    /\ \E i \in 1..Len(player.threads) :
        /\ player.threads[i].pc = "playing"
        /\ player' = thread_playing(player, i)
    /\ UNCHANGED <<Rest, tts, monitoring>>

ThreadPaused ==
    /\ \E i \in 1..Len(player.threads) :
        /\ player.threads[i].pc = "paused"
        /\ player' = thread_paused(player, i)
    /\ UNCHANGED <<Rest, tts, monitoring>>

ThreadFinally ==
    /\ \E i \in 1..Len(player.threads) :
        /\ player.threads[i].pc = "finally"
        /\ player' = thread_finally(player, i)
    /\ UNCHANGED <<Rest, tts, monitoring>>

NextMusic ==
    \/ MusicRequest
    \/ ThreadSearch
    \/ ThreadDownload
    \/ ThreadPlaying
    \/ ThreadPaused
    \/ ThreadFinally

SpecMusic == MusicMade /\ [][NextMusic]_vars

\* ---------------------------------------------------- the email flows

\* the handler is made with any setting of EMAIL_ADDRESS and EMAIL_PASSWORD
Addresses == {"", "me@gmail.com", "me@corp.example"}
Passwords == {"", "app-password"}

EmailMade ==
    /\ Aside("email")
    /\ player = MusicPlayer(FALSE)
    /\ tts = ThreadSafeTTS
    /\ monitoring = SystemMonitor
    /\ \E address \in Addresses, password \in Passwords :
          email = EmailHandler(address, password)

Answers == {"yes", "y", "YES", " yes", "no", "", "yeah"}

\* what the user types in a flow
EmailInputs ==
    [recipient : {"", "bob@example.com"}, subject : {""}, body : {"", "see you at 5"},
     answer : Answers, eof : BOOLEAN]

EmailFlows == {"send_email_interactive", "send_saved_draft", "send_email_auto"}

EmailFlow(flow, io, r) ==
    /\ email' = r.e
    /\ last' = [kind |-> "email", flow |-> flow, answer |-> io.answer,
                asked |-> AsksToSend(flow, email, io),
                credentials |-> ~NoCredentials(email),
                sent |-> r.sent, ret |-> r.ret]
    /\ UNCHANGED <<pc, modules_status, slot, init_idx, groq_api_key,
                   conversation_history, history_file, current_mode, clock,
                   player, tts, monitoring>>

SendEmailInteractive ==
    \E io \in EmailInputs, smtp \in {"ok", "auth_error"} :
        EmailFlow("send_email_interactive", io, send_email_interactive_flow(email, io, smtp))

SendSavedDraft ==
    \E io \in EmailInputs, smtp \in {"ok", "auth_error"} :
        EmailFlow("send_saved_draft", io, send_saved_draft_flow(email, io, smtp))

\* send_email_auto is called with the recipient the extraction found
SendEmailAuto ==
    \E io \in EmailInputs, smtp \in {"ok", "auth_error"} :
        /\ io.recipient # ""
        /\ EmailFlow("send_email_auto", io, send_email_auto_flow(email, io, smtp))

\* the agent is started again, with the .env file as it is then; the draft
\* file stays
Restart ==
    /\ \E address \in Addresses, password \in Passwords :
          email' = [email EXCEPT !.email_address = address, !.email_password = password]
    /\ UNCHANGED <<pc, modules_status, slot, init_idx, groq_api_key,
                   conversation_history, history_file, current_mode, clock,
                   player, tts, monitoring, last>>

NextEmail ==
    \/ SendEmailInteractive
    \/ SendSavedDraft
    \/ SendEmailAuto
    \/ Restart

SpecEmail == EmailMade /\ [][NextEmail]_vars

\* --------------------------------------------- the monitoring loops

MonitorMade ==
    /\ Aside("monitor")
    /\ player = MusicPlayer(FALSE)
    /\ tts = ThreadSafeTTS
    /\ monitoring = SystemMonitor
    /\ email = EmailHandler("", "")

StartMonitoring ==
    /\ Len(monitoring.loops) < MaxLoops \/ monitoring.monitoring_active
    /\ monitoring' = start_monitoring(monitoring).m
    /\ UNCHANGED <<Rest, player, tts>>

StopMonitoring ==
    /\ monitoring' = stop_monitoring(monitoring).m
    /\ UNCHANGED <<Rest, player, tts>>

LoopTest ==
    /\ \E i \in 1..Len(monitoring.loops) :
        /\ monitoring.loops[i].pc = "check"
        /\ monitoring' = loop_test(monitoring, i)
    /\ UNCHANGED <<Rest, player, tts>>

LoopCollect ==
    /\ \E i \in 1..Len(monitoring.loops), ok \in BOOLEAN :
        /\ monitoring.loops[i].pc = "collect"
        /\ monitoring' = loop_collect(monitoring, i, ok)
    /\ UNCHANGED <<Rest, player, tts>>

LoopSleep ==
    /\ \E i \in 1..Len(monitoring.loops) :
        /\ monitoring.loops[i].pc = "sleep"
        /\ monitoring' = loop_sleep(monitoring, i)
    /\ UNCHANGED <<Rest, player, tts>>

NextMonitor ==
    \/ StartMonitoring
    \/ StopMonitoring
    \/ LoopTest
    \/ LoopCollect
    \/ LoopSleep

SpecMonitor == MonitorMade /\ [][NextMonitor]_vars

\* ----------------------------------------------------------- properties

\* the last step was a pass of the loop through process_command
CommandPass == last.kind = "command"

\* the text of the response of the last pass
Response == last.ret.val

\* C1: for every command, whatever the classifier and the module called
\* do, process_command returns a string and lets no exception out; what a
\* module raised is returned as "Sorry, I encountered an error: <message>".
C1_AlwaysAString ==
    CommandPass =>
        /\ last.exc = ""
        /\ IsStr(last.ret)
        /\ last.raised # "" =>
              last.ret = PyStr("Sorry, I encountered an error: " \o last.raised)

\* a pass in which the module that was called raised
C1_ModuleRaised ==
    /\ CommandPass
    /\ last.invoked # << >>
    /\ last.raised # ""
    /\ StartsWith(Response, "Sorry, I encountered an error: ")

\* the classifier was consulted and gave no function call: its call failed
\* or its reply was CHAT; and the e-mail extraction gave none either
ClassifierSaysChat ==
    /\ CommandPass
    /\ last.uses_intent
    /\ IntentOf[last.env.intent] = PyNone
    /\ last.intent_result.type # "dict"

\* C2: when the classifier is configured but answers Chat or fails, the
\* keyword rules are applied to the lower-cased command before any
\* conversation reply: a command that holds a keyword goes to that
\* keyword's capability.
C2_KeywordRulesAfterChat ==
    (ClassifierSaysChat /\ KeywordRuleOf[last.command] # 0) =>
        /\ last.route = "keyword"
        /\ last.rule = KeywordRuleOf[last.command]
        /\ ~last.chatted

\* the module of the capability that the last pass selected, "" if none:
\* that of the function the classifier named when the router knows it,
\* else that of the first keyword rule that matches
SelectedModule ==
    IF last.intent_result.type = "dict" /\ function_branch(last.intent_result.function) # 0
    THEN FunctionTable[function_branch(last.intent_result.function)].module
    ELSE IF last.intent_result.type # "str" /\ KeywordRuleOf[last.command] # 0
    THEN KeywordTable[KeywordRuleOf[last.command]].module
    ELSE ""

\* C3: on every router path, when the module of the selected capability is
\* unavailable, the router returns a "not available" message for it and
\* calls no capability module.
C3_UnavailableIsReported ==
    (CommandPass /\ SelectedModule # "" /\ ~Available(SelectedModule)) =>
        /\ Contains(Response, "not available")
        /\ last.invoked = << >>

\* the classifier named a function the router has no branch for
UnknownFunction ==
    /\ CommandPass
    /\ last.uses_intent
    /\ last.intent_result.type = "dict"
    /\ \A i \in 1..Len(FunctionTable) :
          FunctionTable[i].function # last.intent_result.function

\* C4: when the classifier names a function the router does not know, the
\* router goes on to the keyword rules and returns their result: the rule
\* of the command is taken, its module is called when available, and a
\* string comes back.
C4_UnknownFunctionFallsThrough ==
    UnknownFunction =>
        /\ last.route \in {"keyword", "default"}
        /\ last.rule = KeywordRuleOf[last.command]
        /\ last.route = "keyword" <=> last.rule # 0
        /\ (last.rule # 0 /\ Available(KeywordTable[last.rule].module)) =>
              last.invoked = <<KeywordTable[last.rule].entry>>
        /\ IsStr(last.ret)

\* the classifier named move_files and the file manager was called by the
\* keyword rule
C4_MoveFilesByKeyword ==
    /\ UnknownFunction
    /\ last.intent_result.function = "move_files"
    /\ last.route = "keyword"
    /\ last.invoked = <<"handle_file_request">>

\* the entry points of the categories, in the order of their priority:
\* music, email, file, news, weather, calendar, app-launch, system
PriorityOrder == <<"handle_music_request", "send_email_interactive",
                   "handle_file_request", "get_news", "get_weather",
                   "handle_calendar_request", "launch_application",
                   "get_system_info">>

\* the categories one of whose keywords occurs in the lower-cased command
Matching(command) ==
    {i \in 1..Len(KeywordTable) : AnyIn(KeywordTable[i].words, Strip(Lower(command)))}

\* C5: on the keyword path the first category, in the order music, email,
\* file, news, weather, calendar, app-launch, system, that has a keyword in
\* the lower-cased command is taken, and the conversation default only
\* when none has; the choice depends on the command alone.
C5_FirstCategoryWins ==
    (CommandPass /\ last.route \in {"keyword", "default"}) =>
        IF Matching(last.command) = {}
        THEN last.route = "default" /\ last.invoked = << >>
        ELSE /\ last.route = "keyword"
             /\ last.rule = Min(Matching(last.command))
             /\ Available(KeywordTable[last.rule].module) =>
                   last.invoked = <<PriorityOrder[last.rule]>>

\* a command with keywords of two categories, the later one written first
C5_TwoCategories ==
    /\ CommandPass
    /\ last.command = "email play"
    /\ Cardinality(Matching(last.command)) = 2
    /\ last.invoked = <<"handle_music_request">>

\* C6: with the classifier off, every command that holds "play", "music",
\* "song", "volume" or "pause" goes to the music capability, and the
\* router returns what the music handler returns.
C6_MusicKeywords ==
    (/\ CommandPass
     /\ ~last.uses_intent
     /\ AnyIn({"play", "music", "song", "volume", "pause"}, Lower(last.command))
     /\ Available("music")) =>
        /\ last.route = "keyword"
        /\ last.invoked = <<"handle_music_request">>

\* C7: every entry point the router calls catches its own errors: it
\* returns a string and raises nothing to the router.
C7_ModulesCatchTheirErrors ==
    (CommandPass /\ last.invoked # << >>) => last.raised = ""

\* C8: start-up always completes: a constructor that raises does not end
\* the agent, the module's attribute becomes None, and the attributes of
\* the other modules are as they were.
C8_StartupCompletes ==
    /\ pc # "crashed"
    /\ last.kind = "init" =>
          /\ slot[last.module] =
                (IF last.status /\ last.ctor = "ok" THEN "up" ELSE "None")
          /\ \A m \in Modules \ {last.module} : slot[m] = last.before[m]
    /\ pc # "init" => \A m \in Modules : slot[m] \in {"up", "None"}

\* the constructor of the conversation engine raised, and the start-up went
\* on to give the agent its music player
C8_ConstructorRaised ==
    /\ last.kind = "init"
    /\ last.module = "music"
    /\ modules_status["conversation"]
    /\ slot["conversation"] = "None"
    /\ slot["music"] = "up"

\* C9: the loop ends only on quit, exit, bye or goodbye, matched on the
\* whole trimmed and lower-cased line, or on a keyboard interrupt; no
\* exception of a module or of the classifier ends it.
C9_OnlyReservedWordsEndTheLoop ==
    /\ pc = "exit" =>
          \/ last.kind = "interrupt"
          \/ last.kind = "quit" /\ Lower(Strip(last.input)) \in ReservedWords
    /\ CommandPass => pc = "pass_done"

\* the loop went on after a pass in which a module raised, and after one in
\* which the classifier's call failed
C9_LoopGoesOn ==
    /\ pc = "pass_done"
    /\ CommandPass
    /\ \/ last.raised # ""
       \/ last.uses_intent /\ ~last.env.intent.ok

\* C10: a chat call appends exactly two turns, the user's message and then
\* the assistant's response, saves the history (the file holds it when the
\* write succeeds), and returns the content of the assistant turn.
C10_ChatAppendsTwoTurns ==
    last.kind = "chat" =>
        /\ Len(conversation_history) = Len(last.before) + 2
        /\ SubSeq(conversation_history, 1, Len(last.before)) = last.before
        /\ conversation_history[Len(last.before) + 1].role = "user"
        /\ conversation_history[Len(last.before) + 1].content = last.message
        /\ conversation_history[Len(last.before) + 2].role = "assistant"
        /\ conversation_history[Len(last.before) + 2].content = last.ret
        /\ last.save = "ok" => history_file = FileJson(conversation_history)

\* a chat call on a history that already held turns, answered by the
\* service and saved
C10_ChatOnStoredHistory ==
    /\ last.kind = "chat"
    /\ last.before # << >>
    /\ last.llm.ok
    /\ last.save = "ok"
    /\ Len(conversation_history) = Len(last.before) + 2

\* s is a prefix of t
IsPrefix(s, t) == Len(s) <= Len(t) /\ SubSeq(t, 1, Len(s)) = s

\* C11: every step of the engine other than clear_history (chat,
\* change_mode, detect_intent_and_respond) leaves the turns already in the
\* history where they are: the history before the step is a prefix of the
\* history after it.
C11_HistoryOnlyGrows ==
    [][last'.kind # "clear_history" =>
          IsPrefix(conversation_history, conversation_history')]_vars

\* a routed message that became a chat on a history that held turns
C11_RoutedChatAppended ==
    /\ last.kind = "route"
    /\ last.before # << >>
    /\ Len(conversation_history) = Len(last.before) + 2
    /\ IsPrefix(last.before, conversation_history)

\* a chat call that sent a request to the service
ChatRequest == last.kind = "chat" /\ last.request # << >>

\* the entries of a request between the system instruction and the last
\* entry
Between(request) == SubSeq(request, 2, Len(request) - 1)

\* the last n entries of a history, as role and content
LastTurns(history, n) ==
    [i \in 1..n |-> [role |-> history[Len(history) - n + i].role,
                     content |-> history[Len(history) - n + i].content]]

\* C13: the request of a chat call is the system instruction of the
\* current mode, then the recent turns that preceded the call, then the new
\* user message; the new message is in the request once, as its last
\* entry.
C13_MessageOnce ==
    ChatRequest =>
        /\ last.request[1].role = "system"
        /\ StartsWith(last.request[1].content,
                      IF current_mode \in DOMAIN prompts
                      THEN prompts[current_mode] ELSE prompts["friend"])
        /\ Between(last.request) =
              LastTurns(last.before, Min({Len(last.before), RecentWindow}))
        /\ last.request[Len(last.request)] = [role |-> "user", content |-> last.message]

\* the history as it was when the request of the last chat call was built:
\* the turns before the call and the user's new turn
HistoryAtRequest == SubSeq(conversation_history, 1, Len(last.before) + 1)

\* C12: the context of a request holds the most recent turns of the
\* history, at most RecentWindow (15) of them, in their order; building it
\* truncates neither the history in memory nor the history that is saved.
C12_ContextIsRecentWindow ==
    ChatRequest =>
        /\ Len(Between(last.request)) <= RecentWindow
        /\ Len(Between(last.request)) = Min({Len(HistoryAtRequest), RecentWindow})
        /\ Between(last.request) =
              LastTurns(HistoryAtRequest, Len(Between(last.request)))
        /\ Len(conversation_history) = Len(last.before) + 2
        /\ IsPrefix(last.before, conversation_history)
        /\ last.save = "ok" =>
              load_conversation_history(history_file) = conversation_history

\* a request built on a history longer than the window: the context holds
\* RecentWindow turns and the history keeps them all
C12_LongHistory ==
    /\ ChatRequest
    /\ Len(last.before) >= RecentWindow
    /\ Len(Between(last.request)) = RecentWindow
    /\ Len(conversation_history) > RecentWindow + 1
    /\ last.save = "ok"

\* phrase i of the fallback table occurs in the message, whatever its case
PhraseIn(i, message) == Contains(Lower(message), fallback_responses[i].key)

\* reply is what the fallback table has for the message: the reply of a
\* phrase that occurs in it, or the generic message when none does
FromFallbackTable(message, reply) ==
    \/ \E i \in 1..Len(fallback_responses) :
          PhraseIn(i, message) /\ reply = fallback_responses[i].response
    \/ /\ \A i \in 1..Len(fallback_responses) : ~PhraseIn(i, message)
       /\ reply = generic_fallback

\* the last two turns of the history are the user's message and the
\* assistant's reply of the last chat call
BothTurnsRecorded ==
    /\ Len(conversation_history) = Len(last.before) + 2
    /\ conversation_history[Len(last.before) + 1].role = "user"
    /\ conversation_history[Len(last.before) + 1].content = last.message
    /\ conversation_history[Len(last.before) + 2].role = "assistant"
    /\ conversation_history[Len(last.before) + 2].content = last.ret

\* C14: with a client configured, a chat call whose request to the service
\* fails still returns a reply, taken from the fallback table, and records
\* the user's turn and that reply as the assistant's turn.
C14_FailureUsesFallback ==
    (last.kind = "chat" /\ openai_client /\ ~last.llm.ok) =>
        /\ last.ret # ""
        /\ FromFallbackTable(last.message, last.ret)
        /\ BothTurnsRecorded

\* the service failed on "Thanks, bye" and the table's reply for "thanks"
\* was recorded
C14_ServiceFailed ==
    /\ last.kind = "chat"
    /\ openai_client
    /\ last.request # << >>
    /\ ~last.llm.ok
    /\ last.message = "Thanks, bye"
    /\ StartsWith(last.ret, "No problem!")
    /\ BothTurnsRecorded

\* reply is the reply of the first phrase of the table, in its order, that
\* occurs in the message, or the generic message when none occurs
FirstPhraseReply(message, reply) ==
    \/ \E i \in 1..Len(fallback_responses) :
          /\ PhraseIn(i, message)
          /\ \A j \in 1..(i - 1) : ~PhraseIn(j, message)
          /\ reply = fallback_responses[i].response
    \/ /\ \A i \in 1..Len(fallback_responses) : ~PhraseIn(i, message)
       /\ reply = generic_fallback

\* C15: without a client, chat replies with the reply of the first table
\* phrase that occurs in the message, case ignored, and with the generic
\* message when none occurs; the reply is the content of the assistant
\* turn that is appended.
C15_FirstPhraseWins ==
    (last.kind = "chat" /\ ~openai_client) =>
        /\ FirstPhraseReply(last.message, last.ret)
        /\ BothTurnsRecorded

\* "tell me a joke" without a client: the generic message, appended as the
\* assistant's turn
C15_NoPhraseMatches ==
    /\ last.kind = "chat"
    /\ ~openai_client
    /\ last.message = "tell me a joke"
    /\ last.ret = generic_fallback
    /\ conversation_history[Len(conversation_history)] =
          Turn("assistant", generic_fallback, clock - 1)

\* the three conversation modes
ModeNames == {"friend", "therapist", "workmate"}

\* C16: whatever calls the engine has served (change_mode with any name,
\* chat with or without a mode argument, clear_history), its current mode
\* is friend, therapist or workmate.
C16_ModeIsAMode == current_mode \in ModeNames

\* C17: change_mode with the name of a mode makes it the current mode;
\* with any other name it leaves the mode as it was and returns the list of
\* the valid modes; in both cases the history is left as it was.
C17_ChangeModeValidates ==
    last.kind = "change_mode" =>
        /\ IF Lower(last.new_mode) \in ModeNames
           THEN current_mode = Lower(last.new_mode)
           ELSE /\ current_mode = last.mode_before
                /\ last.ret = "Available modes: friend, therapist, workmate"
        /\ conversation_history = last.before
        /\ history_file = last.file_before

\* change_mode("therapist") on an engine in workmate mode with a history
C17_ToTherapist ==
    /\ last.kind = "change_mode"
    /\ last.new_mode = "therapist"
    /\ last.mode_before = "workmate"
    /\ current_mode = "therapist"
    /\ conversation_history # << >>

\* C18: the history saved by a chat call, loaded by a new engine, is the
\* history in memory: the same turns (role, content, timestamp) in the same
\* order.
C18_SaveThenLoad ==
    (last.kind = "chat" /\ last.save = "ok") =>
        load_conversation_history(history_file) = conversation_history

\* four turns saved, the last of them a reply of the service that holds a
\* quote, a backslash and a line break, which the file holds escaped
C18_FourTurnsSaved ==
    /\ last.kind = "chat"
    /\ last.save = "ok"
    /\ last.llm.ok
    /\ Len(conversation_history) = 4
    /\ Contains(last.ret, "\"") /\ Contains(last.ret, "\\") /\ Contains(last.ret, "\n")
    /\ history_file.text[4].content # "\"" \o last.ret \o "\""

C20_NextSaveWritesAll ==
    /\ (last.kind = "chat" /\ last.save # "ok") =>
          /\ last.ret # ""
          /\ BothTurnsRecorded
          /\ IsPrefix(last.before, conversation_history)
    /\ (last.kind \in {"chat", "clear_history"} /\ last.save = "ok") =>
          load_conversation_history(history_file) = conversation_history

\* a chat call that saved, on an engine whose file lacked turns that were
\* in memory because an earlier save had failed
C20_SavedAfterFailure ==
    /\ last.kind = "chat"
    /\ last.save = "ok"
    /\ last.before # << >>
    /\ load_conversation_history(last.file_before) # last.before
    /\ load_conversation_history(history_file) = conversation_history

\* the router asked the engine about a command that has "send" or "mail"
\* and an "@"
ExtractionTried ==
    CommandPass /\ last.uses_intent /\ WantsExtractionOf[last.command]

\* C21: when the service answers the extraction request with one JSON
\* object, bare or in code fences, the extraction returns the fields of
\* that object: here the recipient amy@example.org of the reply, and not
\* the address the regex finds in the command.
C21_ReplyFieldsReturned ==
    (ExtractionTried /\ last.env.extraction.ok) =>
        /\ last.intent_result.type = "dict"
        /\ last.intent_result.function = "send_email_auto"
        /\ last.intent_result.params.recipient = PyStr("amy@example.org")

\* C22: for a command with an e-mail verb and an "@", the extraction comes
\* before the classification: when the regex finds a recipient in the
\* command the engine returns the send_email_auto call with it, whatever
\* the service and the classifier answer; when it finds none, no error
\* comes out and the command is classified as any other: the classifier's
\* function call, or a chat reply.
C22_ExtractionThenClassification ==
    ExtractionTried =>
        /\ last.exc = ""
        /\ IF ManualExtractionOf[last.command] # PyNone
           THEN /\ last.intent_result.type = "dict"
                /\ last.intent_result.function = "send_email_auto"
                /\ last.intent_result.params.recipient =
                      ManualExtractionOf[last.command].recipient
           ELSE IF IntentOf[last.env.intent] # PyNone
           THEN last.intent_result = IntentOf[last.env.intent]
           ELSE last.intent_result.type = "str" /\ last.chatted

\* "send mail to bob@": the service failed, the regex found no recipient,
\* and the classifier's get_news was taken
C22_NoRecipientClassified ==
    /\ ExtractionTried
    /\ last.command = "send mail to bob@"
    /\ ~last.env.extraction.ok
    /\ ManualExtractionOf[last.command] = PyNone
    /\ last.intent_result.type = "dict"
    /\ last.intent_result.function = "get_news"
    /\ last.invoked = <<"get_news">>

\* the place of a text in a sequence of texts, 0 when it is not there
Place(texts, text) ==
    IF \E i \in 1..Len(texts) : texts[i] = text
    THEN CHOOSE i \in 1..Len(texts) : texts[i] = text
    ELSE 0

\* C23: the speech worker speaks one utterance at a time, and what it has
\* spoken was enqueued by speak() and is spoken in the order of the
\* enqueueing.
C23_OneAtATimeInOrder ==
    /\ Len(tts.speaking) <= 1
    /\ \A i \in 1..Len(tts.spoken) : Place(tts.enqueued, tts.spoken[i]) # 0
    /\ \A i, j \in 1..Len(tts.spoken) :
          i < j => Place(tts.enqueued, tts.spoken[i]) < Place(tts.enqueued, tts.spoken[j])

\* the worker speaks the second utterance while a third waits, the two
\* callers having enqueued
C23_SecondSpoken ==
    /\ Len(tts.spoken) = 2
    /\ tts.speaking = <<tts.spoken[2]>>
    /\ tts.speech_queue # << >>
    /\ tts.enqueued[1] = tts.spoken[1]

\* C24: once stop() has begun, no utterance that was waiting in the queue
\* at that moment is spoken.
C24_QueuedWorkDiscarded ==
    \A i \in (tts.spoken_at_stop + 1)..Len(tts.spoken) :
        Place(tts.waiting_at_stop, tts.spoken[i]) = 0

\* C25: a download that was in flight when stop_music ran does not start
\* playback afterwards.
C25_StoppedDownloadStaysSilent ==
    \A i \in 1..Len(player.threads) :
        ~(player.threads[i].stopped /\ player.threads[i].played)

\* the operations of the file manager that move, copy, create, trash or
\* remove files
ChangesFiles == {"organize_downloads", "move_files_interactive",
                 "copy_files_interactive", "create_script_interactive",
                 "delete_files_interactive"}

\* C26: an operation of handle_file_request that moves, copies, creates,
\* trashes or removes files is performed only in a request in which
\* authenticate() was called and returned True.
C26_ChangesNeedPassword ==
    (/\ last.kind = "command"
     /\ last.invoked = <<"handle_file_request">>
     /\ \E op \in ChangesFiles : last.ret = PyStr(Result(op)))
    => (NeedsAuth(last.command) /\ last.env.auth = "granted")

\* C27: a flow hands a message to send_email, and send_email to the
\* server, only with both credentials configured and after the user
\* answered yes or y at the flow's "Send this ...?" prompt.
C27_SentOnlyWhenConfirmed ==
    (last.kind = "email" /\ last.sent # << >>) =>
        /\ last.credentials
        /\ last.asked
        /\ Lower(last.answer) \in {"yes", "y"}
        /\ Len(last.sent) = 1

\* a saved draft was sent after a yes and its file deleted
C27_DraftSent ==
    /\ last.kind = "email"
    /\ last.flow = "send_saved_draft"
    /\ last.sent # << >>
    /\ last.answer = "YES"
    /\ ~email.draft.exists

C29_LoadingWhileInFlight ==
    player.loading <=> \E i \in 1..Len(player.threads) : player.threads[i].pc # "done"

\* C30: start_monitoring while monitoring is active starts no loop, and a
\* loop that stop_monitoring told to stop does not go through its body
\* again while a loop started later is alive.
C30_OneLoopAtATime ==
    \A i, j \in 1..Len(monitoring.loops) :
        (i < j /\ monitoring.loops[j].pc # "exited") =>
            ~(monitoring.loops[i].pc \in {"collect", "sleep"} /\ monitoring.loops[i].again)

====
